---------------------------- MODULE Spec2Model ----------------------------
(***************************************************************************)
(* A model of the real-time core of the stereo delay plug-in:              *)
(*   Measurement   (Source/Measurement.h)   lock-free peak tracker         *)
(*   DelayLine     (Source/DelayLine.cpp)   circular buffer, cubic read    *)
(*   Tempo         (Source/Tempo.cpp)       host BPM, note lengths         *)
(*   Parameters    (Source/Parameters.cpp)  parameter snapshot, smoothing  *)
(*   DelayAudioProcessor (Source/PluginProcessor.cpp) prepareToPlay and    *)
(*                 processBlock                                            *)
(*                                                                         *)
(* Floating-point values are modelled as integers or fixed-point numbers:  *)
(* delay times, gains and audio samples lie on uniform grids and a sum or  *)
(* product that falls between two grid points is rounded to the nearest    *)
(* one, ties to even. NaN is outside the model, and +infinity appears only *)
(* as the note length at 0 bpm.                                            *)
(***************************************************************************)
EXTENDS Integers, Sequences, FiniteSets

VARIABLES
    \* ---- Measurement (one tracker, e.g. levelL) ----
    value,          \* std::atomic<float> value
    pcUpdate,       \* position of the producer inside updateIfGreater
    oldValue,       \* local of updateIfGreater
    newValue,       \* argument of updateIfGreater
    drained,        \* the value the last readAndReset returned
    owed,           \* history: peaks of completed calls no drain has returned yet
    drainMax,       \* history: largest drain result since the running call began
    windowValid,    \* history: the tracker was reset or drained while no call ran
    windowMax,      \* history: largest value passed to updateIfGreater since then
    expected,       \* history: what the last drain had to return, or NoValue
    undrained,      \* history: largest value passed to updateIfGreater since the
                    \* last drain, resets of the tracker notwithstanding
    \* ---- DelayLine (one line) ----
    bufferLength,   \* int bufferLength
    buffer,         \* std::unique_ptr<float[]> buffer, indices 0..bufferLength-1
    writeIndex,     \* int writeIndex
    dlOp,           \* history: the last operation, its argument, the state before it
    hist,           \* history: the writes since the last reset that the buffer can hold
    intact,         \* history: reset since the last reallocation
    stale,          \* history: a reallocation happened since the last write or reset
    firstOp,        \* history: the first operation called on the line
    \* ---- Parameters ----
    store,          \* the values of the APVTS parameters as the core last read them
    params,         \* the public fields of Parameters, targetDelayTime and coeff
    smoothers,      \* the six juce::LinearSmoothedValue<float> members
    paramOp,        \* history: the last Parameters method that ran
    resetStore,     \* history: the parameter values the last reset() read
    smoothened,     \* history: smoothen() calls since the last reset(), up to 2
    \* ---- Tempo ----
    bpm,            \* double bpm
    tempoOp,        \* history: the last Tempo method, its playhead, bpm before it
    \* ---- DelayAudioProcessor ----
    prepared,       \* prepareToPlay has run
    sampleRate,     \* getSampleRate()
    lineLength,     \* bufferLength of delayLineL and delayLineR
    layout,         \* the channels of the main input and the main output bus
    pc,             \* "idle", "loop" inside the per-sample loop of processBlock,
                    \* or "level" inside its call of levelL.updateIfGreater
    numSamples,     \* buffer.getNumSamples() of the block being processed
    sample,         \* loop counter of processBlock
    blocks,         \* blocks processed so far
    syncedTime,     \* local of processBlock, in milliseconds (a fraction)
    delayInSamples, \* the delay of the last DelayLine::read calls (a fraction)
    delayLineL,     \* DelayLine delayLineL: its non-zero slots and its cursor
    delayLineR,     \* DelayLine delayLineR
    feedbackL,      \* float feedbackL
    feedbackR,      \* float feedbackR
    filters,        \* lowCutFilter, highCutFilter, lastLowCut, lastHighCut, and
                    \* history: whether the last sample called setCutoffFrequency
    frame,          \* locals of the loop: dry, wet and out samples, maxL, maxR,
                    \* and the samples stored in the channels of the output
    \* ---- free functions ----
    call            \* history: the last call of a function, its arguments, its result

measVars == <<value, pcUpdate, oldValue, newValue, drained, owed, drainMax,
              windowValid, windowMax, expected, undrained>>

delayVars == <<bufferLength, buffer, writeIndex, dlOp, hist, intact, stale,
               firstOp>>

paramVars == <<store, params, smoothers, paramOp, resetStore, smoothened>>

tempoVars == <<bpm, tempoOp>>

procVars == <<prepared, sampleRate, lineLength, layout, pc, numSamples, sample,
              blocks, syncedTime, delayInSamples>>

audioVars == <<delayLineL, delayLineR, feedbackL, feedbackR, filters, frame>>

vars == <<measVars, delayVars, paramVars, tempoVars, procVars, audioVars, call>>

notMeasVars == <<delayVars, paramVars, tempoVars, procVars, audioVars, call>>

notDelayVars == <<measVars, paramVars, tempoVars, procVars, audioVars, call>>

notProcVars == <<measVars, delayVars, call>>

notCallVars == <<measVars, delayVars, paramVars, tempoVars, procVars, audioVars>>

-----------------------------------------------------------------------------
(* Bounds *)

MaxLevel == 2

\* Largest argument of setMaximumDelayInSamples.
MaxDelay == 2

\* Samples are the integers 0..MaxSample.
MaxSample == 1

\* A fractional delay is a multiple of 1/FracDen samples.
FracDen == 2

\* Largest number of samples in a block.
MaxBlockSize == 2

\* Largest number of blocks processed.
MaxBlocks == 2

\* A delay time, stored or smoothed, is a multiple of 1/TimeDen milliseconds.
TimeDen == 100

-----------------------------------------------------------------------------
(* Helpers *)

Max(a, b) == IF a >= b THEN a ELSE b

Min(a, b) == IF a <= b THEN a ELSE b

Abs(a) == IF a >= 0 THEN a ELSE -a

\* Division that truncates toward zero, for b > 0.
Quot(a, b) == IF a >= 0 THEN a \div b ELSE -((-a) \div b)

\* The least integer >= a / b, for a >= 0 and b > 0.
CeilDiv(a, b) == (a + b - 1) \div b

\* The grid point nearest to current + n / d for a current on the grid and
\* d > 0, as a float sum is rounded: to the nearest, a tie to the even one.
RoundedSum(current, n, d) ==
    LET q == n \div d
        r == n % d
        below == current + q
    IN  IF 2 * r < d THEN below
        ELSE IF 2 * r > d THEN below + 1
        ELSE IF below % 2 = 0 THEN below ELSE below + 1

RECURSIVE GCD(_, _)
GCD(a, b) == IF b = 0 THEN a ELSE GCD(b, a % b)

\* The fraction n / d in lowest terms, d >= 0; 1 / 0 stands for +infinity.
Rat(n, d) ==
    LET g == GCD(Abs(n), d)
    IN  [num |-> n \div g, den |-> d \div g]

RatDivInt(q, n) == Rat(q.num, q.den * n)

RatMulInt(q, n) ==
    LET g == GCD(n, q.den)
    IN  IF g = 0 THEN Rat(q.num * n, q.den)
        ELSE Rat(q.num * (n \div g), q.den \div g)

RatGtInt(q, n) == q.num > n * q.den

RatGeqInt(q, n) == q.num >= n * q.den

RatLeqInt(q, n) == q.den # 0 /\ CeilDiv(q.num, q.den) <= n


\* Non-negative peak magnitudes handed to updateIfGreater (std::abs of a sample).
Level == 0..MaxLevel

\* What an atomic<float> that was never stored to may hold.
Indeterminate == -1..MaxLevel

\* Marks "no value" in a history variable; below every modelled float.
NoValue == -2 - MaxLevel

-----------------------------------------------------------------------------
(* Measurement *)

InitMeasurement ==
    /\ value \in Indeterminate
    /\ pcUpdate = "idle"
    /\ oldValue = 0
    /\ newValue = 0
    /\ drained = NoValue
    /\ owed = {}
    /\ drainMax = NoValue
    /\ windowValid = FALSE
    /\ windowMax = 0
    /\ expected = NoValue
    /\ undrained = 0

\* Measurement::reset, called from prepareToPlay while no block is processed.
MeasurementReset ==
    /\ pcUpdate = "idle"
    /\ value' = 0
    /\ owed' = {}
    /\ windowValid' = TRUE
    /\ windowMax' = 0
    /\ UNCHANGED <<pcUpdate, oldValue, newValue, drained, drainMax, expected,
                   undrained>>
    /\ UNCHANGED notMeasVars

\* The producer enters updateIfGreater(v).
UpdateBegin(v) ==
    /\ pcUpdate = "idle"
    /\ pcUpdate' = "load"
    /\ newValue' = v
    /\ drainMax' = NoValue
    /\ windowMax' = Max(windowMax, v)
    /\ undrained' = Max(undrained, v)
    /\ UNCHANGED <<value, oldValue, drained, owed, windowValid, expected>>
    /\ UNCHANGED notMeasVars

\* auto oldValue = value.load();
UpdateLoad ==
    /\ pcUpdate = "load"
    /\ oldValue' = value
    /\ pcUpdate' = "cas"
    /\ UNCHANGED <<value, newValue, drained, owed, drainMax, windowValid,
                   windowMax, expected, undrained>>
    /\ UNCHANGED notMeasVars

\* History kept when a call of updateIfGreater returns.
OwedAfterReturn ==
    IF drainMax >= newValue THEN owed ELSE owed \cup {newValue}

\* The loop condition newValue > oldValue is false: the call returns.
UpdateReturn ==
    /\ pcUpdate = "cas"
    /\ ~(newValue > oldValue)
    /\ pcUpdate' = "idle"
    /\ owed' = OwedAfterReturn
    /\ UNCHANGED <<value, oldValue, newValue, drained, drainMax, windowValid,
                   windowMax, expected, undrained>>
    /\ UNCHANGED notMeasVars

\* compare_exchange_weak succeeds: value was oldValue and becomes newValue.
UpdateCasSuccess ==
    /\ pcUpdate = "cas"
    /\ newValue > oldValue
    /\ value = oldValue
    /\ value' = newValue
    /\ pcUpdate' = "idle"
    /\ owed' = OwedAfterReturn
    /\ UNCHANGED <<oldValue, newValue, drained, drainMax, windowValid,
                   windowMax, expected, undrained>>
    /\ UNCHANGED notMeasVars

\* A bug: the compare-exchange is tried once and its failure ends the call.
UpdateCasFailNoRetry ==
    /\ pcUpdate = "cas"
    /\ newValue > oldValue
    /\ oldValue' = value
    /\ pcUpdate' = "idle"
    /\ owed' = OwedAfterReturn
    /\ UNCHANGED <<value, newValue, drained, drainMax, windowValid,
                   windowMax, expected, undrained>>
    /\ UNCHANGED notMeasVars

\* A bug: the failed compare-and-swap leaves the expected value as it was.
UpdateCasFailKeepsOld ==
    /\ pcUpdate = "cas"
    /\ newValue > oldValue
    /\ UNCHANGED <<value, pcUpdate, oldValue, newValue, drained, owed, drainMax,
                   windowValid, windowMax, expected, undrained>>
    /\ UNCHANGED notMeasVars

\* compare_exchange_weak fails (value changed, or spuriously): oldValue is
\* reloaded and the loop tests its condition again.
UpdateCasFail ==
    /\ pcUpdate = "cas"
    /\ newValue > oldValue
    /\ oldValue' = value
    /\ UNCHANGED <<value, pcUpdate, newValue, drained, owed, drainMax,
                   windowValid, windowMax, expected, undrained>>
    /\ UNCHANGED notMeasVars

\* A bug: the drain reads the value and leaves it in place.
ReadNoReset ==
    /\ drained' = value
    /\ value' = value
    /\ owed' = {v \in owed : v > value}
    /\ drainMax' = IF pcUpdate # "idle" THEN Max(drainMax, value) ELSE drainMax
    /\ expected' = IF windowValid /\ pcUpdate = "idle" THEN windowMax ELSE NoValue
    /\ windowValid' = (pcUpdate = "idle")
    /\ windowMax' = 0
    /\ undrained' = 0
    /\ UNCHANGED <<pcUpdate, oldValue, newValue>>
    /\ UNCHANGED notMeasVars

\* return value.exchange(0.0f);  (the consumer: LevelMeter::timerCallback)
ReadAndReset ==
    /\ drained' = value
    /\ value' = 0
    /\ owed' = {v \in owed : v > value}
    /\ drainMax' = IF pcUpdate # "idle" THEN Max(drainMax, value) ELSE drainMax
    /\ expected' = IF windowValid /\ pcUpdate = "idle" THEN windowMax ELSE NoValue
    /\ windowValid' = (pcUpdate = "idle")
    /\ windowMax' = 0
    /\ undrained' = 0
    /\ UNCHANGED <<pcUpdate, oldValue, newValue>>
    /\ UNCHANGED notMeasVars

NextMeasurement ==
    \/ MeasurementReset
    \/ \E v \in Level : UpdateBegin(v)
    \/ UpdateLoad
    \/ UpdateReturn
    \/ UpdateCasSuccess
    \/ UpdateCasFail
    \/ ReadAndReset

-----------------------------------------------------------------------------
(* DelayLine *)

Sample == 0..MaxSample

\* A DelayLine after construction: no buffer, bufferLength = 0, writeIndex = 0.
InitDelayLine ==
    /\ bufferLength = 0
    /\ buffer = << >>
    /\ writeIndex = 0
    /\ dlOp = [name |-> "none", prev |-> "none", arg |-> 0, length |-> 0,
               index |-> 0, buffer |-> << >>]
    /\ hist = << >>
    /\ intact = FALSE
    /\ stale = FALSE
    /\ firstOp = "none"

\* The record of an operation: its name, the name of the operation before
\* it, its argument and the state it found.
Op(name, arg) ==
    [name |-> name, prev |-> dlOp.name, arg |-> arg, length |-> bufferLength,
     index |-> writeIndex, buffer |-> buffer]

\* The first operation called on the line stays on record.
First(name) == IF firstOp = "none" THEN name ELSE firstOp

\* int paddedLength = maxLengthInSamples + 2;
PaddedLength(maxLengthInSamples) == maxLengthInSamples + 2

\* A bug: the buffer always takes the padded length, growing or shrinking.
AlwaysResized(length, maxLengthInSamples) == PaddedLength(maxLengthInSamples)

\* The capacity after setMaximumDelayInSamples: it changes only when the
\* current one is smaller than the padded length.
NewBufferLength(length, maxLengthInSamples) ==
    IF length < PaddedLength(maxLengthInSamples)
    THEN PaddedLength(maxLengthInSamples)
    ELSE length

\* DelayLine::setMaximumDelayInSamples. new float[] leaves every slot of a
\* new buffer indeterminate and the old buffer is freed: of the writes it
\* held only the last stays on record. writeIndex is not touched.
SetMaximumDelayInSamples(maxLengthInSamples) ==
    /\ maxLengthInSamples > 0
    /\ bufferLength' = NewBufferLength(bufferLength, maxLengthInSamples)
    /\ IF bufferLength' # bufferLength
       THEN /\ buffer' \in [0..(bufferLength' - 1) -> Sample]
            /\ intact' = FALSE
            /\ stale' = TRUE
            /\ hist' = IF hist = << >> THEN << >> ELSE <<hist[Len(hist)]>>
            /\ dlOp' = [Op("setMaximumDelayInSamples", maxLengthInSamples)
                           EXCEPT !.buffer = << >>]
       ELSE /\ UNCHANGED <<buffer, intact, stale, hist>>
            /\ dlOp' = Op("setMaximumDelayInSamples", maxLengthInSamples)
    /\ firstOp' = First("setMaximumDelayInSamples")
    /\ UNCHANGED writeIndex
    /\ UNCHANGED notDelayVars

\* A bug: the cursor is placed on slot 0, so the first write lands at index 1.
ResetCursorAtZero ==
    /\ writeIndex' = 0
    /\ buffer' = [i \in 0..(bufferLength - 1) |-> 0]
    /\ dlOp' = Op("reset", 0)
    /\ hist' = << >>
    /\ intact' = (bufferLength > 0)
    /\ stale' = FALSE
    /\ firstOp' = First("reset")
    /\ UNCHANGED bufferLength
    /\ UNCHANGED notDelayVars

\* DelayLine::reset
DelayLineReset ==
    /\ writeIndex' = bufferLength - 1
    /\ buffer' = [i \in 0..(bufferLength - 1) |-> 0]
    /\ dlOp' = Op("reset", 0)
    /\ hist' = << >>
    /\ intact' = (bufferLength > 0)
    /\ stale' = FALSE
    /\ firstOp' = First("reset")
    /\ UNCHANGED bufferLength
    /\ UNCHANGED notDelayVars

\* The history of writes keeps what the buffer can still hold behind the cursor.
Remember(h, input) ==
    LET all == Append(h, input)
    IN  IF Len(all) > bufferLength - 1 THEN Tail(all) ELSE all

\* writeIndex += 1; if (writeIndex >= bufferLength) writeIndex = 0;
Advance(index) == IF index + 1 >= bufferLength THEN 0 ELSE index + 1

\* A bug: the sample is stored before the cursor moves.
WriteThenAdvance(input) ==
    /\ bufferLength > 0
    /\ writeIndex \in 0..(bufferLength - 1)
    /\ writeIndex' = Advance(writeIndex)
    /\ buffer' = [buffer EXCEPT ![writeIndex] = input]
    /\ dlOp' = Op("write", input)
    /\ hist' = Remember(hist, input)
    /\ stale' = FALSE
    /\ firstOp' = First("write")
    /\ UNCHANGED <<bufferLength, intact>>
    /\ UNCHANGED notDelayVars

\* DelayLine::write
Write(input) ==
    /\ bufferLength > 0
    /\ writeIndex' = Advance(writeIndex)
    /\ buffer' = [buffer EXCEPT ![writeIndex'] = input]
    /\ dlOp' = Op("write", input)
    /\ hist' = Remember(hist, input)
    /\ stale' = FALSE
    /\ firstOp' = First("write")
    /\ UNCHANGED <<bufferLength, intact>>
    /\ UNCHANGED notDelayVars

\* int integerDelay = int(delayInSamples), the delay given in 1/FracDen samples.
IntegerDelay(delay) == delay \div FracDen

\* The four read indices before the wrap.
ReadIndexA(delay) == writeIndex - IntegerDelay(delay) + 1
ReadIndexB(delay) == ReadIndexA(delay) - 1
ReadIndexC(delay) == ReadIndexA(delay) - 2
ReadIndexD(delay) == ReadIndexA(delay) - 3

\* The nested wrap: D is wrapped if negative, C only if D was, B only if C
\* was, A only if B was.
\* A bug: the nest is entered from A, so D is wrapped only when A is negative.
WrappedDNestedInA(delay) ==
    IF ReadIndexA(delay) < 0 THEN ReadIndexD(delay) + bufferLength
    ELSE ReadIndexD(delay)
WrappedD(delay) ==
    IF ReadIndexD(delay) < 0 THEN ReadIndexD(delay) + bufferLength
    ELSE ReadIndexD(delay)
WrappedC(delay) ==
    IF ReadIndexD(delay) < 0 /\ ReadIndexC(delay) < 0
    THEN ReadIndexC(delay) + bufferLength ELSE ReadIndexC(delay)
WrappedB(delay) ==
    IF ReadIndexD(delay) < 0 /\ ReadIndexC(delay) < 0 /\ ReadIndexB(delay) < 0
    THEN ReadIndexB(delay) + bufferLength ELSE ReadIndexB(delay)
WrappedA(delay) ==
    IF /\ ReadIndexD(delay) < 0 /\ ReadIndexC(delay) < 0
       /\ ReadIndexB(delay) < 0 /\ ReadIndexA(delay) < 0
    THEN ReadIndexA(delay) + bufferLength ELSE ReadIndexA(delay)

\* The value of read is kept exact as a multiple of 1/ReadScale.
ReadScale == 2 * FracDen * FracDen * FracDen

\* A bug: the difference of the two centre samples is taken as C - B.
InterpolateCentreSwapped(sampleA, sampleB, sampleC, sampleD, f, den) ==
    LET slope0 == sampleC - sampleA
        slope1 == sampleD - sampleB
        v      == 2 * (sampleC - sampleB)
        w      == slope0 + v
        a      == w + v + slope1
        b      == w + a
        stage1 == a * f - b * den
        stage2 == stage1 * f + slope0 * den * den
    IN  stage2 * f + 2 * sampleB * den * den * den

\* The interpolation polynomial of DelayLine::read on four samples, with
\* fraction = f / den; the result is scaled by 2 * den^3.
\*   slope0 = (C - A) * 0.5; slope1 = (D - B) * 0.5; v = B - C; w = slope0 + v;
\*   a = w + v + slope1; b = w + a;
\*   stage1 = a * fraction - b; stage2 = stage1 * fraction + slope0;
\*   return stage2 * fraction + B;
InterpolateAt(sampleA, sampleB, sampleC, sampleD, f, den) ==
    LET slope0 == sampleC - sampleA              \* scaled by 2
        slope1 == sampleD - sampleB              \* scaled by 2
        v      == 2 * (sampleB - sampleC)        \* scaled by 2
        w      == slope0 + v
        a      == w + v + slope1
        b      == w + a
        stage1 == a * f - b * den                \* scaled by 2 * den
        stage2 == stage1 * f + slope0 * den * den
    IN  stage2 * f + 2 * sampleB * den * den * den

\* The polynomial with fraction = f / FracDen; the result is scaled by
\* ReadScale.
Interpolate(sampleA, sampleB, sampleC, sampleD, f) ==
    InterpolateAt(sampleA, sampleB, sampleC, sampleD, f, FracDen)

\* A bug: the read is anchored one slot too new (sample A instead of B).
ReadAnchoredAtA(delay) ==
    Interpolate(buffer[WrappedA(delay)], buffer[WrappedA(delay)],
                buffer[WrappedC(delay)], buffer[WrappedD(delay)],
                delay % FracDen)

\* DelayLine::read(delayInSamples), for 1 <= delayInSamples <= bufferLength - 2.
Read(delay) ==
    Interpolate(buffer[WrappedA(delay)], buffer[WrappedB(delay)],
                buffer[WrappedC(delay)], buffer[WrappedD(delay)],
                delay % FracDen)

\* The samples the interpolation is tried on.
FetchedSample == (-3 * MaxSample)..(3 * MaxSample)

\* The interpolation of DelayLine::read applied to four fetched samples, the
\* fraction running up to 1. The function keeps no state: one call per run
\* shows all it can do.
Interpolated(sampleA, sampleB, sampleC, sampleD, f) ==
    /\ call.fn = "none"
    /\ call' = [fn |-> "interpolate",
                args |-> <<sampleA, sampleB, sampleC, sampleD, f>>,
                result |-> Interpolate(sampleA, sampleB, sampleC, sampleD, f)]
    /\ UNCHANGED notCallVars

NextDelayLine ==
    \/ \E n \in 1..MaxDelay : SetMaximumDelayInSamples(n)
    \/ DelayLineReset
    \/ \E x \in Sample : Write(x)

\* Lines of every capacity with the cursor on every slot: the samples
\* written are all 0, the read indices not depending on them.
NextCursor ==
    \/ \E n \in 1..MaxDelay : SetMaximumDelayInSamples(n)
    \/ DelayLineReset
    \/ Write(0)

-----------------------------------------------------------------------------
(* Tempo *)

\* double bpm = 120.0;
DefaultBpm == 120

\* noteLengthMultipliers, in 1/48 of a quarter note (indices 0..15).
NoteLengthMultipliers ==
    <<6, 8, 9, 12, 16, 18, 24, 32, 36, 48, 64, 72, 96, 128, 144, 192>>

\* A bug: the choice list has one entry more than the table.
NoteLengthsOneMore ==
    <<[den |-> 32, kind |-> "note"], [den |-> 16, kind |-> "trip"],
      [den |-> 32, kind |-> "dot"],  [den |-> 16, kind |-> "note"],
      [den |-> 8, kind |-> "trip"],  [den |-> 16, kind |-> "dot"],
      [den |-> 8, kind |-> "note"],  [den |-> 4, kind |-> "trip"],
      [den |-> 8, kind |-> "dot"],   [den |-> 4, kind |-> "note"],
      [den |-> 2, kind |-> "trip"],  [den |-> 4, kind |-> "dot"],
      [den |-> 2, kind |-> "note"],  [den |-> 1, kind |-> "trip"],
      [den |-> 2, kind |-> "dot"],   [den |-> 1, kind |-> "note"],
      [den |-> 1, kind |-> "dot"]>>

\* juce::StringArray noteLengths, the choices of the delayNote parameter in
\* their order: "1/32", "1/16 trip", "1/32 dot", "1/16", ..., "1/1".
NoteLengths ==
    <<[den |-> 32, kind |-> "note"], [den |-> 16, kind |-> "trip"],
      [den |-> 32, kind |-> "dot"],  [den |-> 16, kind |-> "note"],
      [den |-> 8, kind |-> "trip"],  [den |-> 16, kind |-> "dot"],
      [den |-> 8, kind |-> "note"],  [den |-> 4, kind |-> "trip"],
      [den |-> 8, kind |-> "dot"],   [den |-> 4, kind |-> "note"],
      [den |-> 2, kind |-> "trip"],  [den |-> 4, kind |-> "dot"],
      [den |-> 2, kind |-> "note"],  [den |-> 1, kind |-> "trip"],
      [den |-> 2, kind |-> "dot"],   [den |-> 1, kind |-> "note"]>>

\* The length a choice names, in 1/48 of a quarter note: a whole note is
\* four quarters, a triplet note two thirds and a dotted note three halves
\* of the plain one.
LabelLength(label) ==
    LET plain == (4 * 48) \div label.den
    IN  IF label.kind = "trip" THEN (2 * plain) \div 3
        ELSE IF label.kind = "dot" THEN (3 * plain) \div 2
        ELSE plain

\* The indices juce::AudioParameterChoice::getIndex() can return.
NoteIndex == 0..(Len(NoteLengths) - 1)

\* Tempos a host reports.
HostBpm == {0, 30, 400000}

\* What getPlayHead() gives: no playhead, a playhead without a position, a
\* position without a tempo, or a position with a tempo.
Playheads ==
    {[kind |-> k, bpm |-> 0] : k \in {"nullptr", "noPosition", "noBpm"}}
        \cup {[kind |-> "bpm", bpm |-> b] : b \in HostBpm}

\* A bug: update keeps the previous bpm when the host gives none.
BpmRetained(playhead) ==
    IF playhead.kind = "bpm" THEN playhead.bpm ELSE bpm

\* A bug: update returns before its reset() when there is no playhead.
BpmKeptWithoutPlayhead(playhead) ==
    CASE playhead.kind = "bpm"     -> playhead.bpm
      [] playhead.kind = "nullptr" -> bpm
      [] OTHER                     -> DefaultBpm

\* Tempo::update: reset() first, then the host's bpm if there is a playhead,
\* a position and a bpm in it.
BpmAfterUpdate(playhead) ==
    IF playhead.kind = "bpm" THEN playhead.bpm ELSE DefaultBpm

\* A bug: the length of a quarter note whatever the index.
QuarterNoteMilliseconds(index, b) ==
    IF b = 0
    THEN [num |-> 1, den |-> 0]
    ELSE Rat(60000, b)

\* Tempo::getMillisecondsForNoteLength for tempo b, as a fraction of a
\* millisecond; a division by 0.0 gives +infinity, a negative tempo a
\* negative length.
GetMillisecondsForNoteLength(index, b) ==
    IF b = 0
    THEN [num |-> 1, den |-> 0]
    ELSE IF b < 0
    THEN Rat(-(60000 * NoteLengthMultipliers[index + 1]), 48 * (-b))
    ELSE Rat(60000 * NoteLengthMultipliers[index + 1], 48 * b)

-----------------------------------------------------------------------------
(* Parameters *)

\* Gains, mix, feedback and pan values are multiples of 1/Unit.
Unit == 1000

\* The one-pole coefficient is a multiple of 1/CoeffScale.
CoeffScale == 1000000

MinDelayTime == 5
MaxDelayTime == 5000

\* juce::Decibels::decibelsToGain on the modelled decibel values, in 1/Unit.
DecibelsToGain(db) ==
    CASE db = -12 -> 251
      [] db = -6  -> 501
      [] db = 0   -> 1000
      [] db = 6   -> 1995
      [] db = 12  -> 3981

\* cos of the angle pos * pi / 4000 for pos in 0..2000, in 1/Unit, by the
\* series 1 - t^2/2 + t^4/24 - t^6/720 + t^8/40320 in fixed point (the
\* powers of t in 1/10^8, the last in 1/10^6); within one unit of the cosine.
CosAt(pos) ==
    LET t      == (pos * 785398) \div 1000          \* the angle in 1/10^6 rad
        t2     == (t \div 100) * (t \div 100)
        t4     == (t2 \div 10000) * (t2 \div 10000)
        t6     == (t2 \div 10000) * (t4 \div 10000)
        t8     == (t4 \div 100000) * (t4 \div 100000)
        series == 100000000 - t2 \div 2 + t4 \div 24 - t6 \div 720
                      + (t8 * 10) \div 4032
    IN  RoundedSum(0, series, 100000)

\* A bug: both gains are the cosine.
PanningBothCosine(panning) ==
    [left |-> CosAt(panning + Unit), right |-> CosAt(panning + Unit)]

\* panningEqualPower: x = pi/4 * (panning + 1); left = cos(x); right = sin(x).
PanningEqualPower(panning) ==
    [left |-> CosAt(panning + Unit), right |-> CosAt(2 * Unit - (panning + Unit))]

\* A percentage as a fraction in 1/Unit (value * 0.01f).
Percent(v) == Quot(v * Unit, 100)

SmootherIds == {"gain", "mix", "feedback", "stereo", "lowCut", "highCut"}

\* The values the UI can give each parameter (within its declared range).
ParamValues ==
    [gain      |-> {0, 12},
     delayTime |-> {MinDelayTime * TimeDen, 100 * TimeDen, MaxDelayTime * TimeDen},
     mix       |-> {0, 100},
     feedback  |-> {0, 50},
     stereo    |-> {-100, 0},
     lowCut    |-> {20, 500},
     highCut   |-> {5000, 20000},
     tempoSync |-> BOOLEAN,
     delayNote |-> NoteIndex]

\* The defaults of createParameterLayout.
DefaultStore ==
    [gain |-> 0, delayTime |-> 100 * TimeDen, mix |-> 100, feedback |-> 0, stereo |-> 0,
     lowCut |-> 20, highCut |-> 20000, tempoSync |-> FALSE, delayNote |-> 9]

\* The value reset() and update() hand to a smoother.
Target(id, st) ==
    CASE id = "gain"     -> DecibelsToGain(st.gain)
      [] id = "mix"      -> Percent(st.mix)
      [] id = "feedback" -> Percent(st.feedback)
      [] id = "stereo"   -> Percent(st.stereo)
      [] id = "lowCut"   -> st.lowCut
      [] id = "highCut"  -> st.highCut

\* A default-constructed juce::LinearSmoothedValue<float>.
NewSmoother ==
    [currentValue |-> 0, target |-> 0, countdown |-> 0, step |-> Rat(0, 1),
     stepsToTarget |-> 0]

\* SmoothedValue::setCurrentAndTargetValue
SetCurrentAndTargetValue(sv, v) ==
    [sv EXCEPT !.target = v, !.currentValue = v, !.countdown = 0]

\* floor(rampLengthInSeconds * sampleRate) for the ramp of 0.02 s.
StepsToTarget(sr) == (2 * sr) \div 100

\* SmoothedValue::reset(sampleRate, rampLengthInSeconds)
SmootherReset(sv, sr) ==
    SetCurrentAndTargetValue([sv EXCEPT !.stepsToTarget = StepsToTarget(sr)],
                             sv.target)

\* SmoothedValue::setTargetValue. The step is far smaller than the values
\* it is added to and is kept as a fraction: step = (target - currentValue)
\* / countdown.
SetTargetValue(sv, v) ==
    IF v = sv.target THEN sv
    ELSE IF sv.stepsToTarget <= 0 THEN SetCurrentAndTargetValue(sv, v)
    ELSE [sv EXCEPT !.target = v,
                    !.countdown = sv.stepsToTarget,
                    !.step = Rat(v - sv.currentValue, sv.stepsToTarget)]

\* SmoothedValue::getNextValue: the smoother after the call; currentValue +=
\* step is a rounded sum.
GetNextValue(sv) ==
    IF sv.countdown <= 0 THEN sv
    ELSE IF sv.countdown - 1 > 0
         THEN [sv EXCEPT !.countdown = sv.countdown - 1,
                         !.currentValue = RoundedSum(sv.currentValue,
                                                     sv.step.num, sv.step.den)]
         ELSE [sv EXCEPT !.countdown = 0, !.currentValue = sv.target]

\* SmoothedValue::getNextValue: the value the call returns.
NextValue(sv) ==
    IF sv.countdown <= 0 THEN sv.target ELSE GetNextValue(sv).currentValue

\* coeff = 1 - exp(-1 / (0.2 * sampleRate)), by the series x - x^2/2 + x^3/6
\* with x = 5 / sampleRate, in 1/CoeffScale.
Coeff(sr) ==
    LET x == (5 * CoeffScale) \div sr
    IN  x - (x * x) \div (2 * CoeffScale)
          + (((x * x) \div CoeffScale) * x) \div (6 * CoeffScale)

\* The fields of Parameters as the header initialises them.
InitParams ==
    [gain |-> 0, delayTime |-> 0, mix |-> Unit, feedback |-> 0, panL |-> 0,
     panR |-> Unit, lowCut |-> 20, highCut |-> 20000, delayNote |-> 0,
     tempoSync |-> FALSE, targetDelayTime |-> 0, coeff |-> 0]

\* Parameters::prepareToPlay: the smoothers and the coefficient.
PreparedSmoothers(sm, sr) == [id \in SmootherIds |-> SmootherReset(sm[id], sr)]

\* A bug: reset() sets only the targets, so every value ramps in.
ResetSmoothersRampIn(sm, st) ==
    [id \in SmootherIds |-> SetTargetValue(sm[id], Target(id, st))]

\* Parameters::reset: the smoothers are primed with the stored values.
ResetSmoothers(sm, st) ==
    [id \in SmootherIds |-> SetCurrentAndTargetValue(sm[id], Target(id, st))]

\* Parameters::reset: the public fields take fixed values.
ResetParams(p) ==
    [p EXCEPT !.gain = 0, !.delayTime = 0, !.mix = Unit, !.feedback = 0,
              !.panL = 0, !.panR = Unit, !.lowCut = 20, !.highCut = 20000]

\* Parameters::update: the targets of the smoothers.
UpdatedSmoothers(sm, st) ==
    [id \in SmootherIds |-> SetTargetValue(sm[id], Target(id, st))]

\* A bug: update never snaps, so a delay time of 0 sweeps up from zero.
UpdatedParamsNoSnap(p, st) ==
    [p EXCEPT !.targetDelayTime = st.delayTime,
              !.delayNote = st.delayNote,
              !.tempoSync = st.tempoSync]

\* Parameters::update: targetDelayTime, the snap of a delayTime of 0, the
\* note index and the sync flag. Delay times are in 1/TimeDen ms.
UpdatedParams(p, st) ==
    [p EXCEPT !.targetDelayTime = st.delayTime,
              !.delayTime = IF p.delayTime = 0 THEN st.delayTime
                            ELSE p.delayTime,
              !.delayNote = st.delayNote,
              !.tempoSync = st.tempoSync]

\* A bug: smoothen() reads the stored parameters again before it steps.
SmoothenedSmoothersFromStore(sm) ==
    [id \in SmootherIds |-> GetNextValue(SetTargetValue(sm[id], Target(id, store)))]

\* Parameters::smoothen: every smoother advances by one step.
SmoothenedSmoothers(sm) == [id \in SmootherIds |-> GetNextValue(sm[id])]

\* Parameters::smoothen: the public fields, from the smoothers before the call.
SmoothenedParams(p, sm) ==
    LET pan == PanningEqualPower(NextValue(sm.stereo))
    IN  [p EXCEPT !.gain = NextValue(sm.gain),
                  !.delayTime = RoundedSum(p.delayTime,
                      (p.targetDelayTime - p.delayTime) * p.coeff, CoeffScale),
                  !.mix = NextValue(sm.mix),
                  !.feedback = NextValue(sm.feedback),
                  !.panL = pan.left,
                  !.panR = pan.right,
                  !.lowCut = NextValue(sm.lowCut),
                  !.highCut = NextValue(sm.highCut)]

-----------------------------------------------------------------------------
(* DelayAudioProcessor *)

SampleRates == {44100, 48000}

\* The element of a set of one element: The({e : v \in {d}}) is e with the
\* local v holding the value of d.
The(S) == CHOOSE v \in S : TRUE

\* A product of two values in 1/Unit, rounded to the grid.
Mul(a, b) == RoundedSum(0, a * b, Unit)

\* A delay line of the processor holds lineLength slots; slots records the
\* non-zero ones, every other slot holds 0.0f.
NewLine == [slots |-> << >>, writeIndex |-> 0]

\* delayLineL.reset(): every slot zero, the cursor on the last slot.
ClearedLine(length) == [slots |-> << >>, writeIndex |-> length - 1]

\* buffer[i] of a line of the processor.
Slot(line, i) == IF i \in DOMAIN line.slots THEN line.slots[i] ELSE 0

\* The slots after buffer[index] = input.
Stored(slots, index, input) ==
    [i \in IF input = 0 THEN DOMAIN slots \ {index} ELSE DOMAIN slots \cup {index} |->
        IF i = index THEN input ELSE slots[i]]

\* writeIndex += 1; if (writeIndex >= bufferLength) writeIndex = 0;
NextIndex(line) ==
    IF line.writeIndex + 1 >= lineLength THEN 0 ELSE line.writeIndex + 1

\* A bug: the sample is stored before the cursor of the line moves.
LineWriteThenAdvance(line, input) ==
    [slots |-> Stored(line.slots, line.writeIndex, input),
     writeIndex |-> NextIndex(line)]

\* DelayLine::write on a line of the processor.
LineWrite(line, input) ==
    [slots |-> Stored(line.slots, NextIndex(line), input),
     writeIndex |-> NextIndex(line)]

\* A bug: the read is anchored one slot older, at the delay plus one.
LineIndicesOneOlder(line, delay) ==
    LET integerDelay == Quot(delay.num, delay.den) + 1
        a == line.writeIndex - integerDelay + 1
        b == a - 1
        c == a - 2
        d == a - 3
        wd == d < 0
        wc == wd /\ c < 0
        wb == wc /\ b < 0
        wa == wb /\ a < 0
    IN  [a |-> IF wa THEN a + lineLength ELSE a,
         b |-> IF wb THEN b + lineLength ELSE b,
         c |-> IF wc THEN c + lineLength ELSE c,
         d |-> IF wd THEN d + lineLength ELSE d]

\* The four read indices of DelayLine::read on a line of the processor,
\* after the nested wrap.
LineIndices(line, delay) ==
    LET integerDelay == Quot(delay.num, delay.den)
        a == line.writeIndex - integerDelay + 1
        b == a - 1
        c == a - 2
        d == a - 3
        wd == d < 0
        wc == wd /\ c < 0
        wb == wc /\ b < 0
        wa == wb /\ a < 0
    IN  [a |-> IF wa THEN a + lineLength ELSE a,
         b |-> IF wb THEN b + lineLength ELSE b,
         c |-> IF wc THEN c + lineLength ELSE c,
         d |-> IF wd THEN d + lineLength ELSE d]

\* Every index of the read lies inside the buffer.
LineReadInside(line, delay) ==
    LET at == LineIndices(line, delay)
    IN  \A i \in {at.a, at.b, at.c, at.d} : i \in 0..(lineLength - 1)

\* The interpolation polynomial of DelayLine::read on samples in 1/Unit with
\* fraction = f / den, every product rounded to the grid as it is formed.
InterpolateRounded(sampleA, sampleB, sampleC, sampleD, f, den) ==
    LET slope0 == Mul(sampleC - sampleA, Unit \div 2)
        slope1 == Mul(sampleD - sampleB, Unit \div 2)
        v      == sampleB - sampleC
        w      == slope0 + v
        a      == w + v + slope1
        b      == w + a
        stage1 == RoundedSum(-b, a * f, den)
        stage2 == RoundedSum(slope0, stage1 * f, den)
    IN  RoundedSum(sampleB, stage2 * f, den)

\* DelayLine::read on a line of the processor: the float it returns, in
\* 1/Unit. A read outside the buffer returns whatever lies there.
LineRead(line, delay) ==
    LET at == LineIndices(line, delay)
    IN  IF LineReadInside(line, delay)
        THEN {InterpolateRounded(Slot(line, at.a), Slot(line, at.b),
                                 Slot(line, at.c), Slot(line, at.d),
                                 delay.num - delay.den * Quot(delay.num, delay.den),
                                 delay.den)}
        ELSE {0, Unit}

\* 1 / resonance of a juce::dsp::StateVariableTPTFilter left at its default
\* resonance of 1/sqrt(2), in 1/Unit.
R2 == 1414

\* g = tan(pi * cutoffFrequency / sampleRate), in 1/Unit, as the quotient
\* of the sine and the cosine of CosAt.
FilterG(cutoff, sr) ==
    LET pos == Quot(4 * Unit * cutoff, sr)
    IN  Quot(CosAt(2 * Unit - pos) * Unit, CosAt(pos))

\* h = 1 / (1 + R2 * g + g * g), in 1/Unit.
FilterH(g) == Quot(Unit * Unit * Unit, Unit * Unit + R2 * g + g * g)

\* A StateVariableTPTFilter of two channels after prepare() and reset().
NewFilter == [cutoff |-> 1000, s1 |-> <<0, 0>>, s2 |-> <<0, 0>>]

\* StateVariableTPTFilter::processSample(channel, x): the outputs and the
\* filter after the call. Each local is computed once, in the order of the
\* code.
\*   yHP = h * (x - s1 * (g + R2) - s2);
\*   yBP = yHP * g + s1;  s1 = yHP * g + yBP;
\*   yLP = yBP * g + s2;  s2 = yBP * g + yLP;
ProcessedSample(filter, channel, x, sr) ==
    The({ The({ The({ The({
        [yHP |-> yHP, yLP |-> yLP,
         filter |-> [filter EXCEPT !.s1[channel] = Mul(yHP, g) + yBP,
                                   !.s2[channel] = Mul(yBP, g) + yLP]]
        : yLP \in {Mul(yBP, g) + filter.s2[channel]} })
        : yBP \in {Mul(yHP, g) + filter.s1[channel]} })
        : yHP \in {Mul(FilterH(g), x - Mul(filter.s1[channel], g + R2)
                                     - filter.s2[channel])} })
        : g   \in {FilterG(filter.cutoff, sr)} })

\* The filters and the cached cutoffs after prepareToPlay.
NewFilters ==
    [lowCutFilter |-> NewFilter, highCutFilter |-> NewFilter,
     lastLowCut |-> -1, lastHighCut |-> -1,
     lowCutSet |-> FALSE, highCutSet |-> FALSE]

\* The locals of the loop before its first iteration.
NewFrame ==
    [dryL |-> 0, dryR |-> 0, wetL |-> 0, wetR |-> 0, outL |-> 0, outR |-> 0,
     maxL |-> 0, maxR |-> 0, stored |-> << >>]

\* The channel sets of juce::AudioChannelSet::mono() and stereo().
ChannelSets == {"mono", "stereo"}

\* DelayAudioProcessor::isBusesLayoutSupported: mono to mono, mono to stereo
\* and stereo to stereo.
IsBusesLayoutSupported(mainIn, mainOut) ==
    \/ mainIn = "mono" /\ mainOut = "mono"
    \/ mainIn = "mono" /\ mainOut = "stereo"
    \/ mainIn = "stereo" /\ mainOut = "stereo"

\* const float* inputDataR = mainInput.getReadPointer(isMainInputStereo ? 1 : 0);
\* the sample the loop reads as dryR, of the input samples in[1] and in[2].
InputDataR(mainIn, dryL, dryR) == IF mainIn = "stereo" THEN dryR ELSE dryL

\* A bug: the left result is stored last in a mono output.
StoredOutputLeftLast(mainOut, outL, outR) ==
    IF mainOut = "stereo" THEN <<outL, outR>> ELSE <<outL>>

\* float* outputDataR = mainOutput.getWritePointer(isMainOutputStereo ? 1 : 0);
\* outputDataL[sample] = outL; outputDataR[sample] = outR;
\* the samples in the channels of the output after both stores.
StoredOutput(mainOut, outL, outR) ==
    IF mainOut = "stereo" THEN <<outL, outR>> ELSE <<outR>>


\* A processor after construction: the store at its defaults, nothing
\* prepared.
InitProcessor ==
    /\ store = DefaultStore
    /\ params = InitParams
    /\ smoothers = [id \in SmootherIds |-> NewSmoother]
    /\ paramOp = "none"
    /\ resetStore = [id \in SmootherIds |-> DefaultStore[id]]
    /\ smoothened = 0
    /\ bpm = DefaultBpm
    /\ tempoOp = [name |-> "none", playhead |-> [kind |-> "nullptr", bpm |-> 0],
                  before |-> DefaultBpm]
    /\ prepared = FALSE
    /\ sampleRate = 0
    /\ lineLength = 0
    /\ layout = [mainIn |-> "stereo", mainOut |-> "stereo"]
    /\ pc = "idle"
    /\ numSamples = 0
    /\ sample = 0
    /\ blocks = 0
    /\ syncedTime = Rat(0, 1)
    /\ delayInSamples = Rat(0, 1)
    /\ delayLineL = NewLine
    /\ delayLineR = NewLine
    /\ feedbackL = 0
    /\ feedbackR = 0
    /\ filters = NewFilters
    /\ frame = NewFrame
    /\ call = [fn |-> "none", args |-> << >>, result |-> 0]

\* int maxDelayInSamples = int(std::ceil(maxDelayTime / 1000.0 * sampleRate));
MaxDelayInSamples(sr) == CeilDiv(MaxDelayTime * sr, 1000)

\* lowCutFilter.prepare(spec); lowCutFilter.reset(): the state of both
\* channels is cleared, the cutoff stays.
PreparedFilter(filter) == [filter EXCEPT !.s1 = <<0, 0>>, !.s2 = <<0, 0>>]

\* DelayAudioProcessor::prepareToPlay. The UI and the host write the store
\* at any time and the core reads it only in reset() and update(): st is
\* the store as params.reset() finds it. Its last statements are
\* levelL.reset() and levelR.reset(); the tracker of the model is levelL.
PrepareToPlay(sr, st) ==
    /\ pc = "idle"
    /\ store' = st
    /\ smoothers' = ResetSmoothers(PreparedSmoothers(smoothers, sr), st)
    /\ params' = [ResetParams(params) EXCEPT !.coeff = Coeff(sr)]
    /\ paramOp' = "reset"
    /\ resetStore' = [id \in SmootherIds |-> st[id]]
    /\ smoothened' = 0
    /\ lineLength' = NewBufferLength(lineLength, MaxDelayInSamples(sr))
    /\ bpm' = DefaultBpm
    /\ tempoOp' = [name |-> "reset", playhead |-> [kind |-> "nullptr", bpm |-> 0],
                   before |-> bpm]
    /\ prepared' = TRUE
    /\ sampleRate' = sr
    /\ delayLineL' = ClearedLine(lineLength')
    /\ delayLineR' = ClearedLine(lineLength')
    /\ feedbackL' = 0
    /\ feedbackR' = 0
    /\ filters' = [lowCutFilter |-> PreparedFilter(filters.lowCutFilter),
                   highCutFilter |-> PreparedFilter(filters.highCutFilter),
                   lastLowCut |-> -1, lastHighCut |-> -1,
                   lowCutSet |-> FALSE, highCutSet |-> FALSE]
    /\ value' = 0
    /\ owed' = {}
    /\ windowValid' = TRUE
    /\ windowMax' = 0
    /\ UNCHANGED <<layout, pc, numSamples, sample, blocks, syncedTime,
                   delayInSamples, frame>>
    /\ UNCHANGED <<pcUpdate, oldValue, newValue, drained, drainMax, expected,
                   undrained>>
    /\ UNCHANGED <<delayVars, call>>

\* float syncedTime = float(tempo.getMillisecondsForNoteLength(delayNote));
\* if (syncedTime > Parameters::maxDelayTime) syncedTime = maxDelayTime;
SyncedTime(index, b) ==
    LET t == GetMillisecondsForNoteLength(index, b)
    IN  IF RatGtInt(t, MaxDelayTime) THEN Rat(MaxDelayTime, 1) ELSE t

\* processBlock up to its loop: params.update(), tempo.update(getPlayHead()),
\* syncedTime. st is the store as params.update() finds it.
ProcessBlockBegin(st, playhead, n) ==
    /\ prepared
    /\ pc = "idle"
    /\ blocks < MaxBlocks
    /\ store' = st
    /\ smoothers' = UpdatedSmoothers(smoothers, st)
    /\ params' = UpdatedParams(params, st)
    /\ paramOp' = "update"
    /\ bpm' = BpmAfterUpdate(playhead)
    /\ tempoOp' = [name |-> "update", playhead |-> playhead, before |-> bpm]
    /\ syncedTime' = SyncedTime(params'.delayNote, bpm')
    /\ numSamples' = n
    /\ sample' = 0
    /\ blocks' = blocks + 1
    /\ pc' = "loop"
    /\ frame' = NewFrame
    /\ UNCHANGED <<resetStore, smoothened, prepared, sampleRate, lineLength,
                   layout, delayInSamples, delayLineL, delayLineR, feedbackL,
                   feedbackR, filters>>
    /\ UNCHANGED notProcVars

\* A bug: the loop never looks at the sync flag.
DelayInSamplesAlwaysManual(p, synced, sr) ==
    RatMulInt(RatDivInt(Rat(p.delayTime, TimeDen), 1000), sr)

\* float delayTime = params.tempoSync ? syncedTime : params.delayTime;
\* float delayInSamples = delayTime / 1000.0f * sampleRate;
DelayInSamples(p, synced, sr) ==
    LET delayTime == IF p.tempoSync THEN synced ELSE Rat(p.delayTime, TimeDen)
    IN  RatMulInt(RatDivInt(delayTime, 1000), sr)

\* A bug: the test of the cached cutoff is inverted.
WithCutoffWhenSame(filter, cutoff, last) ==
    IF cutoff = last THEN [filter EXCEPT !.cutoff = cutoff] ELSE filter

\* if (params.lowCut != lastLowCut) lowCutFilter.setCutoffFrequency(params.lowCut);
WithCutoff(filter, cutoff, last) ==
    IF cutoff # last THEN [filter EXCEPT !.cutoff = cutoff] ELSE filter

\* float mono = (dryL + dryR) * 0.5f;
Mono(dryL, dryR) == Mul(dryL + dryR, Unit \div 2)

\* A bug: each line is fed its own feedback, not the other channel's.
DelayInputsOwnFeedback(mono, p, fbL, fbR) ==
    [left |-> Mul(mono, p.panL) + fbL, right |-> Mul(mono, p.panR) + fbR]

\* delayLineL.write(mono*params.panL + feedbackR);
\* delayLineR.write(mono*params.panR + feedbackL);
DelayInputs(mono, p, fbL, fbR) ==
    [left |-> Mul(mono, p.panL) + fbR, right |-> Mul(mono, p.panR) + fbL]

\* feedbackL = wetL * params.feedback, through lowCutFilter and then
\* highCutFilter on channel 0; the same for feedbackR on channel 1. low and
\* high are the filters with their cutoffs up to date.
FeedbackPath(low, high, wetL, wetR, p, sr) ==
    The({ The({ The({ The({
        [feedbackL |-> highL.yLP, feedbackR |-> highR.yLP,
         lowCutFilter |-> lowR.filter, highCutFilter |-> highR.filter]
        : highR \in {ProcessedSample(highL.filter, 2, lowR.yHP, sr)} })
        : lowR  \in {ProcessedSample(lowL.filter, 2, Mul(wetR, p.feedback), sr)} })
        : highL \in {ProcessedSample(high, 1, lowL.yHP, sr)} })
        : lowL  \in {ProcessedSample(low, 1, Mul(wetL, p.feedback), sr)} })

\* A bug: the mix control fades the dry signal out as the wet one comes in.
OutputCrossfade(dry, wet, p) ==
    Mul(Mul(dry, Unit - p.mix) + Mul(wet, p.mix), p.gain)

\* float mixL = dryL + wetL * params.mix; float outL = mixL * params.gain;
Output(dry, wet, p) == Mul(dry + Mul(wet, p.mix), p.gain)

\* One iteration of the per-sample loop on the samples in0 and in1 of the
\* input channels (in1 is not there in a mono input): params.smoothen(), the
\* delay selection, the lazy cutoff updates, the dry samples, both writes,
\* both reads, the feedback path, the outputs, their stores and the peaks.
ProcessSample(in0, in1) ==
    /\ pc = "loop"
    /\ sample < numSamples
    /\ smoothers' = SmoothenedSmoothers(smoothers)
    /\ params' = SmoothenedParams(params, smoothers)
    /\ paramOp' = "smoothen"
    /\ smoothened' = Min(smoothened + 1, 2)
    /\ delayInSamples' = DelayInSamples(params', syncedTime, sampleRate)
    /\ LET low  == WithCutoff(filters.lowCutFilter, params'.lowCut,
                              filters.lastLowCut)
           high == WithCutoff(filters.highCutFilter, params'.highCut,
                              filters.lastHighCut)
           dryL == in0
           dryR == InputDataR(layout.mainIn, in0, in1)
           in   == DelayInputs(Mono(dryL, dryR), params', feedbackL, feedbackR)
       IN  /\ delayLineL' = LineWrite(delayLineL, in.left)
           /\ delayLineR' = LineWrite(delayLineR, in.right)
           /\ \E wetL \in LineRead(delayLineL', delayInSamples') :
              \E wetR \in LineRead(delayLineR', delayInSamples') :
              \E fb \in {FeedbackPath(low, high, wetL, wetR, params',
                                      sampleRate)} :
              \E outL \in {Output(dryL, wetL, params')} :
              \E outR \in {Output(dryR, wetR, params')} :
                    /\ feedbackL' = fb.feedbackL
                    /\ feedbackR' = fb.feedbackR
                    /\ filters' = [lowCutFilter |-> fb.lowCutFilter,
                                   highCutFilter |-> fb.highCutFilter,
                                   lastLowCut |-> params'.lowCut,
                                   lastHighCut |-> params'.highCut,
                                   lowCutSet |->
                                       params'.lowCut # filters.lastLowCut,
                                   highCutSet |->
                                       params'.highCut # filters.lastHighCut]
                    /\ frame' = [dryL |-> dryL, dryR |-> dryR,
                                 wetL |-> wetL, wetR |-> wetR,
                                 outL |-> outL, outR |-> outR,
                                 maxL |-> Max(frame.maxL, Abs(outL)),
                                 maxR |-> Max(frame.maxR, Abs(outR)),
                                 stored |-> StoredOutput(layout.mainOut,
                                                         outL, outR)]
    /\ sample' = sample + 1
    /\ UNCHANGED <<store, resetStore, tempoVars, prepared, sampleRate, lineLength,
                   layout, pc, numSamples, blocks, syncedTime>>
    /\ UNCHANGED notProcVars

\* The loop is over: levelL.updateIfGreater(maxL) runs to its end with no
\* drain in between (levelR.updateIfGreater(maxR) is the same code on the
\* other tracker), and processBlock returns: its locals are gone.
ProcessBlockEnd ==
    /\ pc = "loop"
    /\ sample = numSamples
    /\ pcUpdate = "idle"
    /\ pc' = "idle"
    /\ numSamples' = 0
    /\ sample' = 0
    /\ syncedTime' = Rat(0, 1)
    /\ delayInSamples' = Rat(0, 1)
    /\ frame' = NewFrame
    /\ newValue' = frame.maxL
    /\ oldValue' = value
    /\ value' = Max(value, frame.maxL)
    /\ owed' = owed \cup {frame.maxL}
    /\ drainMax' = NoValue
    /\ windowMax' = Max(windowMax, frame.maxL)
    /\ undrained' = Max(undrained, frame.maxL)
    /\ UNCHANGED <<paramVars, tempoVars, prepared, sampleRate, lineLength, layout,
                   blocks, delayLineL, delayLineR, feedbackL, feedbackR, filters>>
    /\ UNCHANGED <<pcUpdate, drained, windowValid, expected>>
    /\ UNCHANGED <<delayVars, call>>

\* The loop is over and the producer enters levelL.updateIfGreater(maxL);
\* the steps of the call are those of the tracker, open to drains.
ProcessBlockLevel ==
    /\ pc = "loop"
    /\ sample = numSamples
    /\ pcUpdate = "idle"
    /\ pc' = "level"
    /\ pcUpdate' = "load"
    /\ newValue' = frame.maxL
    /\ drainMax' = NoValue
    /\ windowMax' = Max(windowMax, frame.maxL)
    /\ undrained' = Max(undrained, frame.maxL)
    /\ UNCHANGED <<value, oldValue, drained, owed, windowValid, expected>>
    /\ UNCHANGED <<paramVars, tempoVars, prepared, sampleRate, lineLength, layout,
                   numSamples, sample, blocks, syncedTime, delayInSamples,
                   audioVars>>
    /\ UNCHANGED <<delayVars, call>>

\* updateIfGreater has returned and processBlock returns: its locals are
\* gone.
ProcessBlockReturn ==
    /\ pc = "level"
    /\ pcUpdate = "idle"
    /\ pc' = "idle"
    /\ numSamples' = 0
    /\ sample' = 0
    /\ syncedTime' = Rat(0, 1)
    /\ delayInSamples' = Rat(0, 1)
    /\ frame' = NewFrame
    /\ UNCHANGED <<paramVars, tempoVars, prepared, sampleRate, lineLength, layout,
                   blocks, delayLineL, delayLineR, feedbackL, feedbackR, filters>>
    /\ UNCHANGED notProcVars

\* The stores that differ from the defaults in the parameters the delay
\* selection reads.
DelayStores ==
    {[DefaultStore EXCEPT !.delayTime = d, !.tempoSync = t, !.delayNote = i] :
        d \in ParamValues.delayTime, t \in ParamValues.tempoSync,
        i \in {0, 9, 15}}

\* The other value of each smoothed parameter.
OtherValue(id) == CHOOSE v \in ParamValues[id] : v # DefaultStore[id]

\* The default store and the store that differs from it in every smoothed
\* parameter.
SmoothedStores ==
    {DefaultStore,
     [id \in DOMAIN DefaultStore |->
         IF id \in SmootherIds THEN OtherValue(id) ELSE DefaultStore[id]]}

\* The stores that differ from the defaults in the manual delay time; one of
\* them by the smallest step of the model.
DelayTimeStores ==
    {[DefaultStore EXCEPT !.delayTime = d] :
        d \in ParamValues.delayTime \cup {DefaultStore.delayTime + 1}}

\* The stores with the tempo sync switched on, one for each note length.
SyncedStores ==
    {[DefaultStore EXCEPT !.tempoSync = TRUE, !.delayNote = i] : i \in NoteIndex}

\* Centred, fully wet, half of the wet signal fed back, and a manual delay
\* time that is a whole number of samples at both sample rates.
ImpulseStores ==
    {[DefaultStore EXCEPT !.feedback = 50, !.delayTime = d * TimeDen] :
        d \in {10, 20}}

\* A unit impulse on the left input, on the right input, or on both.
Impulses == {<<Unit, 0>>, <<0, Unit>>, <<Unit, Unit>>}

\* The host's block sizes in the impulse test.
ImpulseBlockSizes == {256, 512}

\* No sample has gone through the delay lines since prepareToPlay.
FirstSample == delayLineL.writeIndex = lineLength - 1

NextProcessor ==
    \/ \E sr \in SampleRates : \E st \in DelayStores : PrepareToPlay(sr, st)
    \/ \E st \in DelayStores : \E playhead \in Playheads :
        \E n \in 0..MaxBlockSize : ProcessBlockBegin(st, playhead, n)
    \/ ProcessSample(0, 0)
    \/ ProcessBlockEnd

NextParameters ==
    \/ \E sr \in SampleRates : \E st \in SmoothedStores : PrepareToPlay(sr, st)
    \/ \E st \in SmoothedStores : \E n \in 0..MaxBlockSize :
        ProcessBlockBegin(st, [kind |-> "nullptr", bpm |-> 0], n)
    \/ ProcessSample(0, 0)
    \/ ProcessBlockEnd

NextDelayTime ==
    \/ \E sr \in SampleRates : \E st \in DelayTimeStores : PrepareToPlay(sr, st)
    \/ \E st \in DelayTimeStores : \E n \in 0..MaxBlockSize :
        ProcessBlockBegin(st, [kind |-> "nullptr", bpm |-> 0], n)
    \/ ProcessSample(0, 0)
    \/ ProcessBlockEnd

NextTempo ==
    \/ \E sr \in SampleRates : PrepareToPlay(sr, DefaultStore)
    \/ \E st \in SyncedStores : \E playhead \in Playheads :
        \E n \in 0..MaxBlockSize : ProcessBlockBegin(st, playhead, n)
    \/ ProcessSample(0, 0)
    \/ ProcessBlockEnd

\* The parameters the UI moves while the core runs.
WrittenIds == {"gain", "tempoSync"}

\* A control of the editor, or the host's automation, gives a parameter a new
\* value; this can happen between any two steps of the core.
SetParameter(id, v) ==
    /\ v # store[id]
    /\ store' = [store EXCEPT ![id] = v]
    /\ UNCHANGED <<params, smoothers, paramOp, resetStore, smoothened>>
    /\ UNCHANGED <<measVars, delayVars, tempoVars, procVars, audioVars, call>>

\* The core beside the UI: reset() and update() read the store as it is.
NextStore ==
    \/ \E id \in WrittenIds : \E v \in ParamValues[id] : SetParameter(id, v)
    \/ \E sr \in SampleRates : PrepareToPlay(sr, store)
    \/ \E n \in 0..MaxBlockSize :
        ProcessBlockBegin(store, [kind |-> "nullptr", bpm |-> 0], n)
    \/ ProcessSample(0, 0)
    \/ ProcessBlockEnd

\* Panned hard left, half of the wet signal fed back, a manual delay time of
\* 5 or 10 ms.
FeedbackStores ==
    {[DefaultStore EXCEPT !.feedback = 50, !.stereo = -100,
                          !.delayTime = d * TimeDen] : d \in {MinDelayTime, 10}}

\* A test signal: the input sample pair at each index of the stream.
TestSignal(index) ==
    IF index % 2 = 0 THEN <<Unit, 0>> ELSE <<0, Unit \div 2>>

\* A sustained signal through the cross-fed delay lines, the store constant
\* after prepareToPlay.
NextFeedback ==
    \/ \E sr \in SampleRates : \E st \in FeedbackStores : PrepareToPlay(sr, st)
    \/ \E n \in ImpulseBlockSizes :
        ProcessBlockBegin(store, [kind |-> "nullptr", bpm |-> 0], n)
    \/ LET in == TestSignal(NextIndex(delayLineL))
       IN  ProcessSample(in[1], in[2])
    \/ ProcessBlockEnd

\* Ramps run to their end: silence through blocks long enough to hold a
\* whole ramp of 20 ms, the store changing between blocks.
NextRamp ==
    \/ \E sr \in SampleRates : \E st \in SmoothedStores : PrepareToPlay(sr, st)
    \/ \E st \in SmoothedStores : \E n \in ImpulseBlockSizes :
        ProcessBlockBegin(st, [kind |-> "nullptr", bpm |-> 0], n)
    \/ ProcessSample(0, 0)
    \/ ProcessBlockEnd

\* An impulse test: the store does not change after prepareToPlay, the
\* first sample after prepareToPlay is a unit impulse and silence follows.
NextImpulse ==
    \/ \E sr \in SampleRates : \E st \in ImpulseStores : PrepareToPlay(sr, st)
    \/ \E n \in ImpulseBlockSizes :
        ProcessBlockBegin(store, [kind |-> "nullptr", bpm |-> 0], n)
    \/ FirstSample /\ \E in \in Impulses : ProcessSample(in[1], in[2])
    \/ ~FirstSample /\ ProcessSample(0, 0)
    \/ ProcessBlockEnd

\* The parameters of the delay selection, and the values the UI gives them
\* while the core runs.
SelectionValues ==
    [tempoSync |-> BOOLEAN,
     delayNote |-> {0, 15},
     delayTime |-> {MinDelayTime * TimeDen, 100 * TimeDen}]

\* The playheads of the delay selection: none, a tempo of 0, a slow tempo.
SelectionPlayheads ==
    {[kind |-> "nullptr", bpm |-> 0], [kind |-> "bpm", bpm |-> 0],
     [kind |-> "bpm", bpm |-> 30]}

\* The delay selection beside the UI: the sync flag, the note and the manual
\* delay time are written between any two steps of the core.
NextSelection ==
    \/ \E id \in DOMAIN SelectionValues : \E v \in SelectionValues[id] :
        SetParameter(id, v)
    \/ PrepareToPlay(48000, store)
    \/ \E playhead \in SelectionPlayheads : \E n \in 0..MaxBlockSize :
        ProcessBlockBegin(store, playhead, n)
    \/ ProcessSample(0, 0)
    \/ ProcessBlockEnd

\* The host gives the main buses a layout the processor supports, while no
\* block is processed.
SetBusesLayout(mainIn, mainOut) ==
    /\ pc = "idle"
    /\ IsBusesLayoutSupported(mainIn, mainOut)
    /\ layout' = [mainIn |-> mainIn, mainOut |-> mainOut]
    /\ UNCHANGED <<prepared, sampleRate, lineLength, pc, numSamples, sample,
                   blocks, syncedTime, delayInSamples>>
    /\ UNCHANGED <<measVars, delayVars, paramVars, tempoVars, audioVars, call>>

\* Panned hard left, half of the wet signal fed back, the shortest delay
\* time, dry only or fully wet, at 0 dB or 12 dB.
LayoutStores ==
    {[DefaultStore EXCEPT !.feedback = 50, !.stereo = -100,
                          !.delayTime = MinDelayTime * TimeDen,
                          !.mix = m, !.gain = g] :
        m \in ParamValues.mix, g \in ParamValues.gain}

\* The host's block size in the layout test.
LayoutBlockSize == 256

\* A sustained signal under every supported layout, the store constant after
\* prepareToPlay.
NextLayout ==
    \/ \E mainIn \in ChannelSets : \E mainOut \in ChannelSets :
        SetBusesLayout(mainIn, mainOut)
    \/ \E st \in LayoutStores : PrepareToPlay(48000, st)
    \/ ProcessBlockBegin(store, [kind |-> "nullptr", bpm |-> 0], LayoutBlockSize)
    \/ LET in == TestSignal(NextIndex(delayLineL))
       IN  ProcessSample(in[1], in[2])
    \/ ProcessBlockEnd

\* Half of the wet signal fed back, with the shortest manual delay time or
\* synced to the longest note.
RestartStores ==
    {[DefaultStore EXCEPT !.feedback = 50, !.delayTime = MinDelayTime * TimeDen],
     [DefaultStore EXCEPT !.feedback = 50, !.tempoSync = TRUE, !.delayNote = 15]}

\* No playhead, or a host that reports a tempo below zero.
RestartPlayheads ==
    {[kind |-> "nullptr", bpm |-> 0], [kind |-> "bpm", bpm |-> -30]}

\* Blocks are long without a playhead and short with the host's tempo.
RestartBlockSize(playhead) ==
    IF playhead.kind = "nullptr" THEN LayoutBlockSize ELSE MaxBlockSize

\* A stream and its restarts: the first block carries a signal, every later
\* block is silent, and prepareToPlay comes between any two blocks.
NextRestart ==
    \/ \E st \in RestartStores : PrepareToPlay(48000, st)
    \/ \E playhead \in RestartPlayheads :
        ProcessBlockBegin(store, playhead, RestartBlockSize(playhead))
    \/ /\ blocks = 1
       /\ LET in == TestSignal(NextIndex(delayLineL))
          IN  ProcessSample(in[1], in[2])
    \/ blocks > 1 /\ ProcessSample(0, 0)
    \/ ProcessBlockEnd

\* The producer and the consumer of levelL: blocks of MaxBlockSize samples,
\* the first with a signal and the later ones silent, restarts between
\* blocks, the steps of updateIfGreater at the end of each block, and
\* drains by the meter at any moment.
NextLevel ==
    \/ PrepareToPlay(48000, DefaultStore)
    \/ ProcessBlockBegin(store, [kind |-> "nullptr", bpm |-> 0], MaxBlockSize)
    \/ /\ blocks = 1
       /\ LET in == TestSignal(NextIndex(delayLineL))
          IN  ProcessSample(in[1], in[2])
    \/ blocks > 1 /\ ProcessSample(0, 0)
    \/ ProcessBlockLevel
    \/ UpdateLoad
    \/ UpdateReturn
    \/ UpdateCasSuccess
    \/ UpdateCasFail
    \/ ProcessBlockReturn
    \/ ReadAndReset

\* Hard left, half of the wet signal fed back, and a delay of 5 ms or 10 ms:
\* 240 or 480 samples at 48 kHz.
EchoStores ==
    {[DefaultStore EXCEPT !.stereo = -100, !.feedback = 50,
                          !.delayTime = d * TimeDen] : d \in {MinDelayTime, 10}}

\* An impulse on both input channels at sample 0 of the stream and silence
\* after it, the store constant.
NextEcho ==
    \/ \E st \in EchoStores : PrepareToPlay(48000, st)
    \/ \E n \in ImpulseBlockSizes :
        ProcessBlockBegin(store, [kind |-> "nullptr", bpm |-> 0], n)
    \/ FirstSample /\ ProcessSample(Unit, Unit)
    \/ ~FirstSample /\ ProcessSample(0, 0)
    \/ ProcessBlockEnd

\* Every choice of the note parameter, with and without tempo sync, in blocks
\* of one sample.
NextNote ==
    \/ PrepareToPlay(48000, DefaultStore)
    \/ \E i \in NoteIndex : \E sync \in BOOLEAN :
        \E playhead \in SelectionPlayheads :
            ProcessBlockBegin([DefaultStore EXCEPT !.tempoSync = sync,
                                                   !.delayNote = i],
                              playhead, 1)
    \/ ProcessSample(0, 0)
    \/ ProcessBlockEnd

\* The free functions of the core applied to arguments of their domains.
\* panningEqualPower applied to a control value in [-1, 1], in 1/Unit. The
\* function keeps no state: one call per run shows all it can do.
Panned(x) ==
    /\ call.fn = "none"
    /\ call' = [fn |-> "panningEqualPower", args |-> <<x>>,
                result |-> PanningEqualPower(x)]
    /\ UNCHANGED notCallVars

\* One call of one of the functions, and nothing after it.
NextFunctions ==
    /\ call.fn = "none"
    /\ \/ \E x \in (-Unit)..Unit : Panned(x)
       \/ \E sampleA \in FetchedSample : \E sampleB \in FetchedSample :
           \E sampleC \in FetchedSample : \E sampleD \in FetchedSample :
           \E f \in 0..FracDen :
               Interpolated(sampleA, sampleB, sampleC, sampleD, f)

-----------------------------------------------------------------------------
(* Specifications *)

\* A tracker that may hold anything; the other components as constructed.
InitSpecMeasurement == InitMeasurement /\ InitDelayLine /\ InitProcessor

SpecMeasurement == InitSpecMeasurement /\ [][NextMeasurement]_vars

\* The tracker with a producer that keeps running: a call of updateIfGreater
\* that can take its next step takes it, and a compare-and-swap that would
\* succeed does not fail spuriously forever. Nothing is asked of the
\* consumer.
InitSpecMeasurementFair == InitMeasurement /\ InitDelayLine /\ InitProcessor

SpecMeasurementFair ==
    /\ InitSpecMeasurementFair
    /\ [][NextMeasurement]_vars
    /\ WF_vars(UpdateLoad)
    /\ WF_vars(UpdateReturn)
    /\ WF_vars(UpdateCasSuccess)
    /\ WF_vars(UpdateCasFail)

\* A delay line as constructed; the other components idle.
InitSpecDelayLine ==
    InitMeasurement /\ value = 0 /\ InitDelayLine /\ InitProcessor

SpecDelayLine == InitSpecDelayLine /\ [][NextDelayLine]_vars

\* A delay line as constructed; its cursor taken round by silent writes.
InitSpecCursor == InitMeasurement /\ value = 0 /\ InitDelayLine /\ InitProcessor

SpecCursor == InitSpecCursor /\ [][NextCursor]_vars

\* A processor as constructed; the delay selection of processBlock under
\* every playhead and every store of DelayStores.
InitSpecProcessor ==
    InitMeasurement /\ value = 0 /\ InitDelayLine /\ InitProcessor

SpecProcessor == InitSpecProcessor /\ [][NextProcessor]_vars

\* A processor as constructed; the smoothed parameters under every store of
\* SmoothedStores, with no playhead.
InitSpecParameters ==
    InitMeasurement /\ value = 0 /\ InitDelayLine /\ InitProcessor

SpecParameters == InitSpecParameters /\ [][NextParameters]_vars

\* The processor with the tempo sync on, under every playhead.
InitSpecTempo ==
    InitMeasurement /\ value = 0 /\ InitDelayLine /\ InitProcessor

SpecTempo == InitSpecTempo /\ [][NextTempo]_vars

\* A processor as constructed; an impulse through the audio path.
InitSpecImpulse == InitMeasurement /\ value = 0 /\ InitDelayLine /\ InitProcessor

SpecImpulse == InitSpecImpulse /\ [][NextImpulse]_vars

\* No function called yet.
InitSpecFunctions == InitMeasurement /\ value = 0 /\ InitDelayLine /\ InitProcessor

SpecFunctions == InitSpecFunctions /\ [][NextFunctions]_vars

\* A processor as constructed; ramps of the linear smoothers run out.
InitSpecRamp == InitMeasurement /\ value = 0 /\ InitDelayLine /\ InitProcessor

SpecRamp == InitSpecRamp /\ [][NextRamp]_vars

\* A processor as constructed; the UI writes the store while the core runs.
InitSpecStore == InitMeasurement /\ value = 0 /\ InitDelayLine /\ InitProcessor

SpecStore == InitSpecStore /\ [][NextStore]_vars

\* A processor as constructed; a sustained signal through the feedback loop.
InitSpecFeedback == InitMeasurement /\ value = 0 /\ InitDelayLine /\ InitProcessor

SpecFeedback == InitSpecFeedback /\ [][NextFeedback]_vars

\* A processor as constructed; the delay selection while the UI writes.
InitSpecSelection == InitMeasurement /\ value = 0 /\ InitDelayLine /\ InitProcessor

SpecSelection == InitSpecSelection /\ [][NextSelection]_vars

\* A processor as constructed; a signal through every supported layout.
InitSpecLayout == InitMeasurement /\ value = 0 /\ InitDelayLine /\ InitProcessor

SpecLayout == InitSpecLayout /\ [][NextLayout]_vars

\* A processor as constructed; a stream, restarts and silence.
InitSpecRestart == InitMeasurement /\ value = 0 /\ InitDelayLine /\ InitProcessor

SpecRestart == InitSpecRestart /\ [][NextRestart]_vars

\* A processor as constructed, its meter running.
InitSpecLevel == InitMeasurement /\ value = 0 /\ InitDelayLine /\ InitProcessor

SpecLevel == InitSpecLevel /\ [][NextLevel]_vars

\* A processor as constructed; an impulse and its echoes.
InitSpecEcho == InitMeasurement /\ value = 0 /\ InitDelayLine /\ InitProcessor

SpecEcho == InitSpecEcho /\ [][NextEcho]_vars

\* A processor as constructed; the note parameter moved between blocks.
InitSpecNote == InitMeasurement /\ value = 0 /\ InitDelayLine /\ InitProcessor

SpecNote == InitSpecNote /\ [][NextNote]_vars

\* The processor with the tempo sync off, under every manual delay time.
InitSpecDelayTime ==
    InitMeasurement /\ value = 0 /\ InitDelayLine /\ InitProcessor

SpecDelayTime == InitSpecDelayTime /\ [][NextDelayTime]_vars

-----------------------------------------------------------------------------
(* Claims about Measurement *)

\* C1: no peak is lost. For every completed updateIfGreater(v) since the last
\* reset, the stored value is >= v, or a readAndReset that took effect after
\* the call began returned a value >= v (such calls are not in owed).
NoPeakLost == \A v \in owed : value >= v

\* C1 witness: a call that raced with a drain has completed and its peak is
\* still owed to the next drain.
NoPeakLostWitness ==
    /\ pcUpdate = "idle"
    /\ drainMax # NoValue
    /\ newValue \in owed
    /\ newValue > 0

\* C7: single-threaded, from a reset tracker, a drain returns the maximum of
\* the values written since the previous drain, and 0 if none was written.
DrainReturnsWindowMax == expected # NoValue => drained = expected

\* C7 witness: a drain returned a positive maximum that is not the value
\* written last.
DrainReturnsWindowMaxWitness ==
    /\ expected # NoValue
    /\ drained = expected
    /\ drained > newValue
    /\ newValue > 0

-----------------------------------------------------------------------------
(* Claims about DelayLine *)

\* The sample written k writes before the most recent write since the last
\* reset, or 0 when fewer than k + 1 writes have happened.
Historical(k) == IF Len(hist) >= k + 1 THEN hist[Len(hist) - k] ELSE 0

\* C2: after reset() and any sequence of writes, read(k) for every integer k
\* with 1 <= k <= bufferLength - 2 is exactly the sample written k writes
\* before the most recent one, or 0 when fewer than k + 1 writes have happened.
IntegerDelayReadIsExact ==
    intact =>
        \A k \in 1..(bufferLength - 2) :
            Read(k * FracDen) = ReadScale * Historical(k)

\* C2 witness: a read at an integer delay crosses the wrap of the buffer and
\* returns a non-zero sample although a newer and an older neighbour differ.
IntegerDelayReadIsExactWitness ==
    /\ intact
    /\ \E k \in 1..(bufferLength - 2) :
        /\ ReadIndexB(k * FracDen) < 0
        /\ Len(hist) >= k + 1
        /\ Historical(k) > 0
        /\ Historical(k - 1) # Historical(k)
        /\ Read(k * FracDen) = ReadScale * Historical(k)

\* C4: after setMaximumDelayInSamples(n) the capacity is >= n + 2; no operation
\* lowers the capacity; the buffer is reallocated only when the capacity was
\* smaller than n + 2 and is otherwise left as it is.
CapacityOnlyGrows ==
    /\ bufferLength >= dlOp.length
    /\ dlOp.name = "setMaximumDelayInSamples" =>
        /\ bufferLength >= dlOp.arg + 2
        /\ dlOp.length >= dlOp.arg + 2 =>
            /\ bufferLength = dlOp.length
            /\ buffer = dlOp.buffer
        /\ bufferLength # dlOp.length => dlOp.length < dlOp.arg + 2

\* C4 witness: a line with history is configured for a smaller maximum than
\* it already holds and keeps its capacity and contents.
CapacityOnlyGrowsWitness ==
    /\ dlOp.name = "setMaximumDelayInSamples"
    /\ dlOp.length > dlOp.arg + 2
    /\ bufferLength = dlOp.length
    /\ Len(hist) > 0

\* What write(x) does to the state it found: the cursor advances by one modulo
\* the capacity, x is stored at the new cursor, no other slot changes.
WriteEffect ==
    dlOp.name = "write" =>
        /\ writeIndex = (dlOp.index + 1) % bufferLength
        /\ buffer[writeIndex] = dlOp.arg
        /\ \A i \in 0..(bufferLength - 1) :
            i # writeIndex => buffer[i] = dlOp.buffer[i]

ResetClearsAndRewinds ==
    /\ dlOp.name = "reset" =>
        /\ \A i \in 0..(bufferLength - 1) : buffer[i] = 0
        /\ writeIndex = bufferLength - 1
        /\ bufferLength = dlOp.length
    /\ (dlOp.name = "write" /\ dlOp.prev = "reset") => writeIndex = 0

\* C6 witness: a reset found non-zero samples and a cursor elsewhere.
ResetClearsAndRewindsWitness ==
    /\ dlOp.name = "reset"
    /\ bufferLength > 0
    /\ dlOp.index # bufferLength - 1
    /\ \E i \in 0..(bufferLength - 1) : dlOp.buffer[i] # 0

-----------------------------------------------------------------------------
(* Claims about DelayAudioProcessor::processBlock *)

\* C3: in every iteration of the per-sample loop, on the manual and on the
\* tempo-synced path, the delay handed to DelayLine::read satisfies
\* 1 <= delayInSamples <= bufferLength - 2 for the buffer that prepareToPlay
\* configured.
ReadPreconditionHolds ==
    (pc = "loop" /\ sample > 0) =>
        /\ RatGeqInt(delayInSamples, 1)
        /\ RatLeqInt(delayInSamples, lineLength - 2)

-----------------------------------------------------------------------------
(* Claims about Tempo *)

\* The last operation on the tempo was an update whose playhead, position
\* or bpm was absent.
UpdatedWithoutTempo ==
    tempoOp.name = "update" /\ tempoOp.playhead.kind # "bpm"

\* C8: after Tempo::update the bpm is the host's when the playhead, its
\* position and the bpm in it are all there, and exactly 120 when any of them
\* is absent, whatever the bpm was before the call.
UpdateResetsThenOverwrites ==
    tempoOp.name = "update" =>
        bpm = IF tempoOp.playhead.kind = "bpm" THEN tempoOp.playhead.bpm
              ELSE DefaultBpm

\* C8 witness: an update without a playhead brought the bpm from a host tempo
\* back to 120.
UpdateResetsThenOverwritesWitness ==
    /\ tempoOp.name = "update"
    /\ tempoOp.playhead.kind = "nullptr"
    /\ tempoOp.before \in HostBpm
    /\ bpm = DefaultBpm

\* C9 as stated: after an update in which the host reports no valid tempo the
\* bpm is the one the previous query left.
BpmRetainedWithoutTempo == UpdatedWithoutTempo => bpm = tempoOp.before

\* C9 amended: after an update in which the host reports no valid tempo the
\* bpm is the default 120; a different tempo left by the previous query is
\* not retained.
BpmDefaultWithoutTempo ==
    UpdatedWithoutTempo =>
        /\ bpm = DefaultBpm
        /\ tempoOp.before # DefaultBpm => bpm # tempoOp.before

\* C9 witness: the host reported 30 bpm in one block and a position without
\* a bpm in the next, and the bpm is 120.
BpmDefaultWithoutTempoWitness ==
    /\ tempoOp.name = "update"
    /\ tempoOp.playhead.kind = "noBpm"
    /\ tempoOp.before = 30
    /\ bpm = DefaultBpm

-----------------------------------------------------------------------------
(* Claims about Parameters *)

\* The snapshot holds the converted values of the stored parameters st and
\* the panner's gains for the stored stereo parameter.
SnapshotMatches(st) ==
    /\ params.gain = Target("gain", st)
    /\ params.mix = Target("mix", st)
    /\ params.feedback = Target("feedback", st)
    /\ params.lowCut = Target("lowCut", st)
    /\ params.highCut = Target("highCut", st)
    /\ params.panL = PanningEqualPower(Target("stereo", st)).left
    /\ params.panR = PanningEqualPower(Target("stereo", st)).right

\* C10 as stated: directly after reset() the snapshot matches the stored
\* parameters.
SnapshotPrimedByReset == paramOp = "reset" => SnapshotMatches(resetStore)

\* C10 amended: reset() primes every smoother (current and target value, no
\* ramp pending) to the converted stored parameter and gives the snapshot
\* fixed values; the snapshot matches the store, pan gains included, after
\* the first smoothen() that follows if the store is as reset() read it.
SmoothersPrimedByReset ==
    /\ paramOp = "reset" =>
        /\ \A id \in SmootherIds :
            /\ smoothers[id].currentValue = Target(id, resetStore)
            /\ smoothers[id].target = Target(id, resetStore)
            /\ smoothers[id].countdown = 0
        /\ params.gain = 0 /\ params.mix = Unit /\ params.feedback = 0
        /\ params.panL = 0 /\ params.panR = Unit
        /\ params.lowCut = 20 /\ params.highCut = 20000
        /\ params.delayTime = 0
    /\ (/\ paramOp = "smoothen"
        /\ smoothened = 1
        /\ \A id \in SmootherIds : store[id] = resetStore[id])
        => SnapshotMatches(store)

\* C10 witness: a reset() read a store that differs from the defaults in every
\* smoothed parameter, and the first smoothen() after it gave the snapshot
\* the converted values.
SmoothersPrimedByResetWitness ==
    /\ paramOp = "smoothen"
    /\ smoothened = 1
    /\ \A id \in SmootherIds :
        store[id] = resetStore[id] /\ store[id] # DefaultStore[id]
    /\ params.gain = DecibelsToGain(12)
    /\ params.panL = Unit

\* update() ran in this step: the target is the stored delay time; a smoothed
\* delay time of 0 becomes the target and any other is left as it was.
UpdateSnapsOrKeeps ==
    (pc = "idle" /\ paramOp' = "update") =>
        /\ params'.targetDelayTime = store'.delayTime
        /\ params'.delayTime = IF params.delayTime = 0
                               THEN params'.targetDelayTime
                               ELSE params.delayTime

\* C11 as stated: update snaps a delay time of 0 to the target and otherwise
\* changes only the target, and the first smoothen() after a reset yields
\* delayTime = target.
FirstSmoothenOnTarget ==
    /\ [][UpdateSnapsOrKeeps]_vars
    /\ []((paramOp = "smoothen" /\ smoothened = 1) =>
            params.delayTime = params.targetDelayTime)

\* C11 amended: update snaps a delay time of 0 to the target and otherwise
\* changes only the target; the smoothen() that directly follows an update
\* which left delayTime = target yields delayTime = target, and no smoothen()
\* yields a delay time below the declared minimum (no sweep from zero).
DelayTimeSnapsOnUpdate ==
    /\ [][UpdateSnapsOrKeeps]_vars
    /\ [][(paramOp = "update" /\ paramOp' = "smoothen"
             /\ params.delayTime = params.targetDelayTime) =>
            params'.delayTime = params'.targetDelayTime]_vars
    /\ [](paramOp = "smoothen" => params.delayTime >= MinDelayTime * TimeDen)

\* C11 witness: the first smoothen() after a reset, with the longest delay
\* time stored, left the smoothed delay time on the target.
DelayTimeSnapsOnUpdateWitness ==
    /\ paramOp = "smoothen"
    /\ smoothened = 1
    /\ store.delayTime = MaxDelayTime * TimeDen
    /\ params.targetDelayTime = MaxDelayTime * TimeDen
    /\ params.delayTime = params.targetDelayTime

\* C12: in every smoothen() step the one-pole smoothing brings the delay time
\* strictly closer to its target unless it is on it already, and never past
\* it.
OnePoleStrictlyCloser ==
    [][(pc = "loop" /\ sample' = sample + 1) =>
        LET target == params.targetDelayTime
            before == params.delayTime
            after  == params'.delayTime
        IN  /\ params'.targetDelayTime = target
            /\ before # target => Abs(target - after) < Abs(target - before)
            /\ before = target => after = target
            /\ before <= target => after <= target
            /\ before >= target => after >= target]_vars

\* The number of samples of a delay of ms milliseconds at the sample rate in
\* use.
WholeSamples(ms) == (ms * sampleRate) \div 1000

\* The index in the output stream of the sample the loop has just produced,
\* counted from prepareToPlay.
OutputIndex == delayLineL.writeIndex

\* C13: an impulse at index 0 through a constant delay of D samples (480
\* for 10 ms at 48 kHz): the wet signal is zero on both channels at every
\* output index below D and non-zero on the right channel at index D.
ImpulseArrivesAfterDelay ==
    (pc = "loop" /\ sample > 0) =>
        LET D == WholeSamples(store.delayTime \div TimeDen)
        IN  /\ OutputIndex < D => (frame.wetL = 0 /\ frame.wetR = 0)
            /\ OutputIndex = D => frame.wetR # 0

ImpulseArrivesAfterDelayWitness ==
    /\ pc = "loop" /\ sample > 0
    /\ sampleRate = 48000
    /\ store.delayTime = 10 * TimeDen
    /\ OutputIndex = 480
    /\ frame.wetR # 0

\* C14: for every index in 0..15 and every positive tempo the note length is
\* 60000 * multiplier[index] / bpm milliseconds; index 9 at 120 bpm gives
\* exactly 500 ms, which is the synced time of the block; at half the tempo
\* every note length is twice as long.
NoteLengthFromTempo ==
    bpm > 0 =>
        /\ \A index \in NoteIndex :
            LET ms == GetMillisecondsForNoteLength(index, bpm)
            IN  /\ ms.den > 0
                /\ ms.num * bpm * 48
                      = 60000 * NoteLengthMultipliers[index + 1] * ms.den
                /\ bpm % 2 = 0 =>
                      LET slow == GetMillisecondsForNoteLength(index, bpm \div 2)
                      IN  slow.num * ms.den = 2 * ms.num * slow.den
                /\ (index = 9 /\ bpm = 120) => (ms.num = 500 /\ ms.den = 1)
        /\ (pc = "loop" /\ bpm = 120 /\ params.delayNote = 9) =>
              (syncedTime.num = 500 /\ syncedTime.den = 1)

NoteLengthFromTempoWitness ==
    /\ pc = "loop" /\ sample > 0
    /\ tempoOp.name = "update"
    /\ bpm = 120
    /\ params.tempoSync /\ params.delayNote = 9
    /\ syncedTime.num = 500 /\ syncedTime.den = 1
    /\ delayInSamples.num = sampleRate \div 2

\* C15: on four fetched samples that lie on a straight line the interpolation
\* of read returns the linear value B + fraction * (C - B) for every fraction
\* in [0, 1); on any four samples the polynomial at fraction 1 is the next
\* older sample C.
CubicExactOnLines ==
    call.fn = "interpolate" =>
        LET sampleA == call.args[1]
            sampleB == call.args[2]
            sampleC == call.args[3]
            sampleD == call.args[4]
            f       == call.args[5]
        IN  /\ (/\ sampleB - sampleA = sampleC - sampleB
                 /\ sampleC - sampleB = sampleD - sampleC
                 /\ f < FracDen) =>
                  call.result * FracDen
                      = ReadScale * (sampleB * FracDen + f * (sampleC - sampleB))
            /\ f = FracDen => call.result = ReadScale * sampleC

CubicExactOnLinesWitness ==
    /\ call.fn = "interpolate"
    /\ call.args[2] - call.args[1] = call.args[3] - call.args[2]
    /\ call.args[3] - call.args[2] = call.args[4] - call.args[3]
    /\ call.args[3] # call.args[2]
    /\ call.args[5] \in 1..(FracDen - 1)
    /\ call.result * FracDen
          = ReadScale * (call.args[2] * FracDen + call.args[5] * (call.args[3] - call.args[2]))

\* C16: every value readAndReset returns is >= 0, also when the meter's timer
\* drains the tracker before the first reset() and however the drain
\* interleaves with updateIfGreater calls that carry non-negative values.
DrainedNeverNegative == drained # NoValue => drained >= 0

\* C17: every linearly smoothed value lies, after each smoothen(), between
\* its previous value and its target (inclusive); a ramp lasts 20 ms worth of
\* samples, at its end the value is the target, and with an unchanged target
\* it stays there.
LinearNeverOvershoots ==
    /\ [][(pc = "loop" /\ sample' = sample + 1) =>
            \A id \in SmootherIds :
                LET before == smoothers[id].currentValue
                    after  == smoothers'[id].currentValue
                    target == smoothers[id].target
                IN  /\ Min(before, target) <= after
                    /\ after <= Max(before, target)
                    /\ smoothers'[id].countdown
                          = Max(smoothers[id].countdown - 1, 0)
                    /\ smoothers'[id].countdown = 0 => after = target]_vars
    /\ [][(pc = "idle" /\ pc' = "loop") =>
            \A id \in SmootherIds :
                IF Target(id, store') = smoothers[id].target
                THEN smoothers'[id] = smoothers[id]
                ELSE smoothers'[id].countdown = sampleRate \div 50]_vars

\* C18: no step of the core changes a stored parameter; update() reads the
\* stored values once, at the start of the block, and smoothen() reads none:
\* through the loop the targets, the note index and the sync flag stay as
\* update() set them, whatever the store holds by then.
StoreOnlyReadPerBlock ==
    /\ [][store' # store =>
            UNCHANGED <<params, smoothers, paramOp, resetStore, smoothened,
                        tempoVars, procVars, audioVars>>]_vars
    /\ [][(pc = "idle" /\ pc' = "loop") =>
            /\ \A id \in SmootherIds : smoothers'[id].target = Target(id, store)
            /\ params'.targetDelayTime = store.delayTime
            /\ params'.delayNote = store.delayNote
            /\ params'.tempoSync = store.tempoSync]_vars
    /\ [][(pc = "loop" /\ pc' = "loop") =>
            /\ \A id \in SmootherIds : smoothers'[id].target = smoothers[id].target
            /\ params'.targetDelayTime = params.targetDelayTime
            /\ params'.delayNote = params.delayNote
            /\ params'.tempoSync = params.tempoSync]_vars

StoreOnlyReadPerBlockWitness ==
    /\ pc = "loop"
    /\ paramOp = "smoothen"
    /\ sample = 2
    /\ store.gain = 12 /\ smoothers.gain.target = DecibelsToGain(0)
    /\ store.tempoSync /\ ~params.tempoSync

CrossFeedbackOrder ==
    [][(pc = "loop" /\ sample' = sample + 1) =>
        LET mono == Mul(frame'.dryL + frame'.dryR, Unit \div 2)
            D    == delayInSamples'.num
            fb   == FeedbackPath(
                        WithCutoff(filters.lowCutFilter, params'.lowCut,
                                   filters.lastLowCut),
                        WithCutoff(filters.highCutFilter, params'.highCut,
                                   filters.lastHighCut),
                        frame'.wetL, frame'.wetR, params', sampleRate)
        IN  /\ Slot(delayLineL', delayLineL'.writeIndex)
                  = Mul(mono, params'.panL) + feedbackR
            /\ Slot(delayLineR', delayLineR'.writeIndex)
                  = Mul(mono, params'.panR) + feedbackL
            /\ (delayInSamples'.den = 1 /\ delayLineL'.writeIndex >= D) =>
                  /\ frame'.wetL = Slot(delayLineL', delayLineL'.writeIndex - D)
                  /\ frame'.wetR = Slot(delayLineR', delayLineR'.writeIndex - D)
            /\ feedbackL' = fb.feedbackL
            /\ feedbackR' = fb.feedbackR]_vars

CrossFeedbackOrderWitness ==
    /\ pc = "loop" /\ sample > 0
    /\ delayInSamples.den = 1
    /\ delayLineL.writeIndex > delayInSamples.num
    /\ frame.dryL # 0
    /\ frame.wetL # 0 /\ frame.wetR # 0
    /\ feedbackL # 0 /\ feedbackR # 0 /\ feedbackL # feedbackR
    /\ Slot(delayLineL, delayLineL.writeIndex) # Mul(frame.dryL \div 2, params.panL)

-----------------------------------------------------------------------------
(* Claims about processBlock *)

\* The tempo-synced time of a block for the note index and the tempo the
\* block's update found: min(60000 * multiplier / bpm, 5000) ms, where a
\* tempo of 0 gives the maximum.
IsSyncedTime(t, index, b) ==
    LET m == NoteLengthMultipliers[index + 1]
    IN  IF b = 0 \/ 60000 * m > MaxDelayTime * 48 * b
        THEN t.num = MaxDelayTime /\ t.den = 1
        ELSE t.num * 48 * b = 60000 * m * t.den

\* C21: the step that enters the loop takes the sync flag and the note from
\* the store as it is then and computes syncedTime = min(60000 *
\* multiplier[delayNote] / bpm, 5000) ms; no step inside the block, the UI's
\* writes included, changes the flag, the note, the tempo or syncedTime; and
\* every sample uses syncedTime if the flag is set and otherwise the smoothed
\* manual delay time of that sample, converted to samples.
DelaySelectedPerBlock ==
    [][/\ (pc = "idle" /\ pc' = "loop") =>
            /\ params'.tempoSync = store.tempoSync
            /\ params'.delayNote = store.delayNote
            /\ IsSyncedTime(syncedTime', store.delayNote, bpm')
       /\ (pc = "loop" /\ pc' = "loop") =>
            /\ params'.tempoSync = params.tempoSync
            /\ params'.delayNote = params.delayNote
            /\ bpm' = bpm
            /\ syncedTime' = syncedTime
       /\ (pc = "loop" /\ sample' = sample + 1) =>
            IF params.tempoSync
            THEN delayInSamples'.num * 1000 * syncedTime.den
                    = syncedTime.num * sampleRate * delayInSamples'.den
            ELSE delayInSamples'.num * 10 * TimeDen
                    = params'.delayTime * (sampleRate \div 100)
                          * delayInSamples'.den]_vars

\* A synced block at 30 bpm with the longest note (8000 ms, clamped to 5000)
\* has processed a sample while the store already says "not synced".
DelaySelectedPerBlockWitness ==
    /\ pc = "loop" /\ sample > 0
    /\ params.tempoSync /\ ~store.tempoSync
    /\ params.delayNote = 15 /\ bpm = 30
    /\ syncedTime = Rat(MaxDelayTime, 1)
    /\ delayInSamples = Rat(MaxDelayTime * 48, 1)

\* C22: in every sample setCutoffFrequency is called on a filter exactly when
\* the smoothed cutoff differs from the cached one, and a filter that is not
\* set keeps its cutoff; yet after every sample, the first one after
\* prepareToPlay included, the cutoff each filter processed the sample with is
\* the cutoff of the snapshot, as if it were set in every sample.
LazyCutoffIsEager ==
    [][(pc = "loop" /\ sample' = sample + 1) =>
          /\ filters'.lowCutSet = (params'.lowCut # filters.lastLowCut)
          /\ filters'.highCutSet = (params'.highCut # filters.lastHighCut)
          /\ ~filters'.lowCutSet =>
                filters'.lowCutFilter.cutoff = filters.lowCutFilter.cutoff
          /\ ~filters'.highCutSet =>
                filters'.highCutFilter.cutoff = filters.highCutFilter.cutoff
          /\ filters'.lowCutFilter.cutoff = params'.lowCut
          /\ filters'.highCutFilter.cutoff = params'.highCut]_vars

\* A sample in which neither filter was set, in a stream that began with the
\* filters at cutoffs other than their default.
LazyCutoffIsEagerWitness ==
    /\ pc = "loop" /\ sample > 1
    /\ ~filters.lowCutSet /\ ~filters.highCutSet
    /\ filters.lowCutFilter.cutoff = 500 /\ params.lowCut = 500
    /\ filters.highCutFilter.cutoff = 5000 /\ params.highCut = 5000

HistoryCleared ==
    /\ feedbackL = 0 /\ feedbackR = 0
    /\ delayLineL.slots = << >> /\ delayLineR.slots = << >>
    /\ filters.lowCutFilter.s1 = <<0, 0>> /\ filters.lowCutFilter.s2 = <<0, 0>>
    /\ filters.highCutFilter.s1 = <<0, 0>> /\ filters.highCutFilter.s2 = <<0, 0>>

\* C24: prepareToPlay leaves no history, whatever was processed before it,
\* and a silent sample processed with no history gives a silent output on
\* both channels and leaves no history: after a restart silent blocks give
\* silence.
RestartClearsHistory ==
    [][/\ paramOp' = "reset" => HistoryCleared'
       /\ (/\ HistoryCleared
           /\ pc = "loop" /\ sample' = sample + 1
           /\ frame'.dryL = 0 /\ frame'.dryR = 0) =>
             (frame'.outL = 0 /\ frame'.outR = 0 /\ HistoryCleared')]_vars


\* C25: whenever processBlock has returned, a drain of the tracker of a
\* channel would return at least the largest absolute output sample of that
\* channel in the blocks processed since the previous drain.
PeakHeldUntilDrained ==
    (pc = "idle" /\ paramOp \in {"update", "smoothen"}) => value >= undrained


\* C26: neither side of the tracker blocks the other. A drain can be taken
\* in every state, whatever the producer is doing, and is one step; every
\* call of updateIfGreater returns, however the drains fall; and a step that
\* stays in the loop with another expected value finds the stored value
\* changed since it was loaded and reloads it.
UpdateTerminates ==
    /\ [](ENABLED ReadAndReset)
    /\ (pcUpdate # "idle") ~> (pcUpdate = "idle")
    /\ [][(pcUpdate = "cas" /\ pcUpdate' = "cas" /\ oldValue' # oldValue) =>
            (value # oldValue /\ oldValue' = value /\ newValue > oldValue)]_vars

\* A drain has changed the stored value under a call that is about to
\* compare: the compare-and-swap fails and the loop goes round again.
UpdateTerminatesWitness ==
    /\ pcUpdate = "cas"
    /\ newValue > oldValue
    /\ value # oldValue
    /\ drainMax = oldValue


-----------------------------------------------------------------------------
(* Claims about the read indices *)

\* The slot k samples behind the cursor, modulo the capacity.
SlotBehind(k) == (writeIndex - k + 2 * bufferLength) % bufferLength

\* C27: for every position of the cursor and every delay from 1 to
\* bufferLength - 2 samples, the four read indices after the nested wrap lie
\* in 0..bufferLength-1 and are the slots d-1, d, d+1 and d+2 samples behind
\* the cursor, d the integer part of the delay.
ReadIndicesBehindCursor ==
    writeIndex \in 0..(bufferLength - 1) =>
    \A delay \in FracDen..((bufferLength - 2) * FracDen) :
        /\ {WrappedA(delay), WrappedB(delay), WrappedC(delay), WrappedD(delay)}
               \subseteq 0..(bufferLength - 1)
        /\ WrappedA(delay) = SlotBehind(IntegerDelay(delay) - 1)
        /\ WrappedB(delay) = SlotBehind(IntegerDelay(delay))
        /\ WrappedC(delay) = SlotBehind(IntegerDelay(delay) + 1)
        /\ WrappedD(delay) = SlotBehind(IntegerDelay(delay) + 2)

\* The cursor has come round to slot 0 of the longest line by writes, where
\* a read at the longest delay wraps all four indices and a read at a delay
\* of one sample wraps B, C and D and leaves A.
ReadIndicesBehindCursorWitness ==
    /\ dlOp.name = "write"
    /\ bufferLength = MaxDelay + 2
    /\ writeIndex = 0
    /\ Len(hist) = bufferLength - 1
    /\ ReadIndexA(MaxDelay * FracDen) < 0
    /\ WrappedA(MaxDelay * FracDen) = bufferLength - 1
    /\ WrappedA(FracDen) = 0
    /\ WrappedB(FracDen) = bufferLength - 1


-----------------------------------------------------------------------------
(* Claims about the note index *)

\* C28: the note index handed to the table of multipliers is one of its 16
\* indices in every state. The choices of the delayNote parameter are as
\* many as the entries of the table and name the same note lengths in the
\* same order, and delayNote changes only in update(), to the index of the
\* parameter's choice.
NoteIndexInsideTable ==
    /\ [](/\ Len(NoteLengths) = Len(NoteLengthMultipliers)
          /\ \A i \in DOMAIN NoteLengths :
                LabelLength(NoteLengths[i]) = NoteLengthMultipliers[i]
          /\ params.delayNote + 1 \in DOMAIN NoteLengthMultipliers)
    /\ [][params'.delayNote # params.delayNote =>
            /\ paramOp' = "update"
            /\ store'.delayNote \in NoteIndex
            /\ params'.delayNote = store'.delayNote]_vars

\* A block begins with the last choice, a whole note, which at the default
\* tempo of 120 bpm is 2000 ms.
NoteIndexInsideTableWitness ==
    /\ pc = "loop"
    /\ tempoOp.name = "update"
    /\ params.delayNote = Len(NoteLengthMultipliers) - 1
    /\ bpm = DefaultBpm
    /\ syncedTime = Rat(2000, 1)


-----------------------------------------------------------------------------
(* Claims about the echoes *)

\* The echoes looked at.
MaxEchoes == 4

\* The index in the stream where echo k of an impulse at index 0 begins when
\* the round trip of the feedback loop is delay + 1 samples.
EchoIndex(k, delay) == k * delay + (k - 1)

\* C29: with a constant delay of D whole samples, the input panned hard left
\* and an impulse at sample 0, the wet signal is silent up to the first echo
\* at index D on the left; the k-th echo begins at index k * D + (k - 1),
\* the round trip of the feedback being D + 1 samples, on the right for even
\* k and on the left for odd k, and nothing comes on either side before
\* its next echo is due.
EchoesEveryDelayPlusOne ==
    (pc = "loop" /\ sample > 0 /\ delayInSamples.den = 1 /\ params.panR = 0) =>
        LET n == delayLineL.writeIndex
            D == delayInSamples.num
        IN  /\ frame.wetL # 0 => (n = EchoIndex(1, D) \/ n >= EchoIndex(3, D))
            /\ frame.wetR # 0 => n >= EchoIndex(2, D)
            /\ \A k \in 1..MaxEchoes :
                n = EchoIndex(k, D) =>
                    IF k % 2 = 1 THEN frame.wetL # 0 ELSE frame.wetR # 0

\* The third echo, back on the left, two round trips after the first.
EchoesEveryDelayPlusOneWitness ==
    /\ pc = "loop"
    /\ sample > 0
    /\ params.panR = 0
    /\ delayInSamples = Rat(240, 1)
    /\ delayLineL.writeIndex = EchoIndex(3, 240)
    /\ frame.wetL # 0


-----------------------------------------------------------------------------
(* Claims about the output layout *)

====
